---- MODULE Spec2Model ----
(***************************************************************************)
(* av-vortex: JSON-RPC 2.0 server over HTTP.                               *)
(*                                                                         *)
(* The model follows rpc/server.go (registry, ServeRequest, Service.Call,  *)
(* WorkerPool, Worker), rpc/errors.go (error taxonomy and the package      *)
(* level error values) and rpc/json2/server.go, rpc/json2/errors.go        *)
(* (readRequest, writeResponse, handler.ServeHTTP, newJsonErrorFromError). *)
(*                                                                         *)
(* Go strings that the code cuts or concatenates are sequences of chunks:  *)
(* a chunk is either the one-character string "." or a dot-free piece.     *)
(* Nullable Go values (pointers, interfaces) are records with a kind       *)
(* field, kind "nil" being the nil pointer / nil interface.                *)
(***************************************************************************)
EXTENDS Integers, Sequences, FiniteSets, TLC

\* ------------------------------------------------------------------------
\* Bounds of the model
\* ------------------------------------------------------------------------

\* W: number of worker goroutines started by WorkerPool (flag "w").
NumWorkers == 2

\* K: number of HTTP connections served at the same time.
NumHandlers == 3

\* Number of goroutines that call Call on the one client.
NumCallers == 2

\* Number of calls issued on the client in one run.
MaxCalls == 3

\* Number of goroutines that call RegisterName while requests are served.
NumRegistrars == 2

\* Number of goroutines that look a service up while services are
\* registered.
NumLookups == 2

Workers == 1..NumWorkers

Callers == 1..NumCallers

Handlers == 1..NumHandlers

Registrars == 1..NumRegistrars

Lookups == 1..NumLookups

\* ------------------------------------------------------------------------
\* rpc/errors.go: error codes
\* ------------------------------------------------------------------------

ERR_PARSE == -32700

ERR_INVALID_REQ == -32600

ERR_NO_METHOD == -32601

ERR_BAD_PARAMS == -32602

ERR_INTERNAL == -32603

ERR_SERVER == -32000

\* rpc/json2/errors.go: wire codes
JSON_ERR_PARSE == -32700

JSON_ERR_INVALID_REQ == -32600

JSON_ERR_NO_METHOD == -32601

JSON_ERR_BAD_PARAMS == -32602

JSON_ERR_INTERNAL == -32603

JSON_ERR_SERVER == -32000

\* "The error codes from and including -32768 to -32000 are reserved".
ReservedLow == -32768

ReservedHigh == -32000

\* net/http status codes used by handler.ServeHTTP
StatusOK == 200

StatusBadRequest == 400

StatusMethodNotAllowed == 405

\* ------------------------------------------------------------------------
\* Nullable values
\* ------------------------------------------------------------------------

Nil == [kind |-> "nil"]

IsNil(v) == v.kind = "nil"

\* interface{} holding a Go string
StringData(s) == [kind |-> "string", val |-> s]

\* ------------------------------------------------------------------------
\* rpc/errors.go: ServerError
\* ------------------------------------------------------------------------

\* NewServerError returns a pointer to a fresh ServerError; the record
\* stands for the pointer together with the struct it points to.
NewServerError(code, msg, d) ==
    [kind |-> "server", global |-> FALSE, Code |-> code, Message |-> msg, Data |-> d]

\* The value of the package level variable ErrMethodNotFound at start.
ErrMethodNotFoundInit ==
    [Code |-> ERR_NO_METHOD,
     Message |-> <<"The method does not exist / is not available.">>,
     Data |-> Nil]

\* The pointer held in the package level variable ErrMethodNotFound: every
\* holder of this error value sees the one shared struct.
ErrMethodNotFoundPtr ==
    [kind |-> "server", global |-> TRUE, Code |-> 0, Message |-> <<>>, Data |-> Nil]

\* errors.New(text): an error that is not a *ServerError
PlainError(text) == [kind |-> "plain", text |-> text]

\* ------------------------------------------------------------------------
\* Go values of the test services (rpc/server_test.go)
\* ------------------------------------------------------------------------

\* Go identifiers, one character per piece
NameArith == <<"A", "r", "i", "t", "h">>

NameAdd == <<"A", "d", "d">>

NameMul == <<"M", "u", "l">>

NameDiv == <<"D", "i", "v">>

NameArgs == <<"A", "r", "g", "s">>

NameReply == <<"R", "e", "p", "l", "y">>

UpperCase ==
    {"A", "B", "C", "D", "E", "F", "G", "H", "I", "J", "K", "L", "M",
     "N", "O", "P", "Q", "R", "S", "T", "U", "V", "W", "X", "Y", "Z"}

\* reflect.Type of a named type of package rpc, or of a pointer to it:
\* name and pkgPath are those of the pointed-to type when ptr is TRUE.
NamedType(name) == [ptr |-> FALSE, name |-> name, pkgPath |-> <<"rpc">>]

PtrTo(t) == [ptr |-> TRUE, name |-> t.name, pkgPath |-> t.pkgPath]

TypeOfError == [ptr |-> FALSE, name |-> <<"e", "r", "r", "o", "r">>, pkgPath |-> <<>>]

\* reflect.Method of a method with the given name and signature; ins
\* counts the receiver, outs are the result types.
Method(name, argType, replyType) ==
    [name |-> name, pkgPath |-> <<>>, ins |-> <<argType, replyType>>,
     outs |-> <<TypeOfError>>]

\* type Arith int, with methods declared on *Arith
ArithMethods ==
    {Method(NameAdd, NamedType(NameArgs), PtrTo(NamedType(NameReply))),
     Method(NameMul, PtrTo(NamedType(NameArgs)), PtrTo(NamedType(NameReply))),
     Method(NameDiv, NamedType(NameArgs), PtrTo(NamedType(NameReply)))}

\* new(Arith): the receiver value registered by startServer
RcvrArith == [ptr |-> TRUE, name |-> NameArith, methods |-> ArithMethods]

ZeroArgs == [A |-> 0, B |-> 0]

ZeroReply == [C |-> 0]

DivideByZero == PlainError(<<"divide by zero">>)

\* The bodies of Arith.Add, Arith.Mul and Arith.Div: the reply as the method
\* leaves it and the error it returns.
UserMethod(name, args, reply) ==
    CASE name = NameAdd -> [reply |-> [C |-> args.A + args.B], err |-> Nil]
      [] name = NameMul -> [reply |-> [C |-> args.A * args.B], err |-> Nil]
      [] name = NameDiv ->
            IF args.B = 0
            THEN [reply |-> reply, err |-> DivideByZero]
            ELSE [reply |-> [C |-> args.A \div args.B], err |-> Nil]

\* ------------------------------------------------------------------------
\* rpc/server.go: method introspection and registry
\* ------------------------------------------------------------------------

\* Is this an exported - upper case - name?
isExported(name) == Len(name) > 0 /\ name[1] \in UpperCase

\* Is this type exported or a builtin?
isExportedOrBuiltinType(t) == isExported(t.name) \/ t.pkgPath = <<>>

\* Variant: the reply type is not required to be a pointer, and the types
\* of argument and reply are not required to be exported.
ValidMethodLax(m) ==
    /\ m.pkgPath = <<>>
    /\ Len(m.ins) + 1 = 3
    /\ Len(m.outs) = 1
    /\ m.outs[1] = TypeOfError

\* One iteration of the loop of installValidMethods: does the method pass
\* every check?
ValidMethod(m) ==
    /\ m.pkgPath = <<>>
    /\ Len(m.ins) + 1 = 3
    /\ isExportedOrBuiltinType(m.ins[1])
    /\ m.ins[2].ptr
    /\ isExportedOrBuiltinType(m.ins[2])
    /\ Len(m.outs) = 1
    /\ m.outs[1] = TypeOfError

\* Variant: every method of the type is installed.
installValidMethodsAll(methods) ==
    [n \in {m.name : m \in methods} |->
        LET m == CHOOSE x \in methods : x.name = n
        IN  [method |-> m.name,
             argsType |-> IF Len(m.ins) >= 1 THEN m.ins[1] ELSE TypeOfError,
             replyType |-> IF Len(m.ins) >= 2 THEN m.ins[2] ELSE TypeOfError]]

\* installValidMethods returns valid Rpc methods of typ: a map from the
\* method name to its methodType.
installValidMethods(methods) ==
    LET valid == {m \in methods : ValidMethod(m)}
    IN  [n \in {m.name : m \in valid} |->
            LET m == CHOOSE x \in valid : x.name = n
            IN  [method |-> m.name, argsType |-> m.ins[1], replyType |-> m.ins[2]]]

\* Variant: a registration under a name that is present replaces the
\* record.
RegisterNameOverwrite(map, name, rcvr) ==
    LET sname == IF name # <<>> THEN name ELSE rcvr.name
        method == installValidMethods(rcvr.methods)
    IN  IF ~isExported(rcvr.name) THEN [map |-> map, ok |-> FALSE]
        ELSE IF DOMAIN method = {} THEN [map |-> map, ok |-> FALSE]
        ELSE [map |-> [n \in DOMAIN map \cup {sname} |->
                          IF n = sname
                          THEN [name |-> sname, rcvr |-> rcvr.name, method |-> method]
                          ELSE map[n]],
              ok |-> TRUE]

\* Variant: the exported-name test is applied to the name the service is
\* registered under.
RegisterNameExportedName(map, name, rcvr) ==
    LET sname == IF name # <<>> THEN name ELSE rcvr.name
        method == installValidMethods(rcvr.methods)
    IN  IF ~isExported(sname) THEN [map |-> map, ok |-> FALSE]
        ELSE IF sname \in DOMAIN map THEN [map |-> map, ok |-> FALSE]
        ELSE IF DOMAIN method = {} THEN [map |-> map, ok |-> FALSE]
        ELSE [map |-> [n \in DOMAIN map \cup {sname} |->
                          IF n = sname
                          THEN [name |-> sname, rcvr |-> rcvr.name, method |-> method]
                          ELSE map[n]],
              ok |-> TRUE]

\* RegisterName: the service map after the call and whether it failed.
\* The empty name stands for Register(rcvr).
RegisterName(map, name, rcvr) ==
    LET sname == IF name # <<>> THEN name ELSE rcvr.name
        method == installValidMethods(rcvr.methods)
    IN  IF ~isExported(rcvr.name) THEN [map |-> map, ok |-> FALSE]
        ELSE IF sname \in DOMAIN map THEN [map |-> map, ok |-> FALSE]
        ELSE IF DOMAIN method = {} THEN [map |-> map, ok |-> FALSE]
        ELSE [map |-> [n \in DOMAIN map \cup {sname} |->
                          IF n = sname
                          THEN [name |-> sname, rcvr |-> rcvr.name, method |-> method]
                          ELSE map[n]],
              ok |-> TRUE]

\* NewServer followed by Register(new(Arith)), as startServer does.
EmptyServiceMap == [n \in {} |-> Nil]

StartServiceMap == RegisterName(EmptyServiceMap, <<>>, RcvrArith).map

\* The receiver types of TestRegistrationError, each with one method that
\* is declared on the pointer type.
NameReplyNotPointer == <<"R", "e", "p", "l", "y", "N", "o", "t", "P", "o", "i", "n", "t", "e", "r">>

NameArgNotPublic == <<"A", "r", "g", "N", "o", "t", "P", "u", "b", "l", "i", "c">>

NameReplyNotPublic == <<"R", "e", "p", "l", "y", "N", "o", "t", "P", "u", "b", "l", "i", "c">>

NameNeedsPtrType == <<"N", "e", "e", "d", "s", "P", "t", "r", "T", "y", "p", "e">>

NameLocal == <<"l", "o", "c", "a", "l">>

\* reflect.TypeOf(rcvr) for a type whose methods are declared on the
\* pointer type: the method set of the pointer holds them, the method set
\* of the value is empty.
Receiver(ptr, name, ptrMethods) ==
    [ptr |-> ptr, name |-> name, methods |-> IF ptr THEN ptrMethods ELSE {}]

\* func (t *ReplyNotPointer) ReplyNotPointer(args *Args, reply Reply) error
RcvrReplyNotPointer ==
    Receiver(TRUE, NameReplyNotPointer,
             {Method(NameReplyNotPointer, PtrTo(NamedType(NameArgs)), NamedType(NameReply))})

\* func (t *ArgNotPublic) ArgNotPublic(args *local, reply *Reply) error
RcvrArgNotPublic ==
    Receiver(TRUE, NameArgNotPublic,
             {Method(NameArgNotPublic, PtrTo(NamedType(NameLocal)),
                     PtrTo(NamedType(NameReply)))})

\* func (t *ReplyNotPublic) ReplyNotPublic(args *Args, reply *local) error
RcvrReplyNotPublic ==
    Receiver(TRUE, NameReplyNotPublic,
             {Method(NameReplyNotPublic, PtrTo(NamedType(NameArgs)),
                     PtrTo(NamedType(NameLocal)))})

\* func (t *NeedsPtrType) NeedsPtrType(args *Args, reply *Reply) error
NeedsPtrTypeMethods ==
    {Method(NameNeedsPtrType, PtrTo(NamedType(NameArgs)), PtrTo(NamedType(NameReply)))}

\* NeedsPtrType(0), the value, and new(NeedsPtrType), the pointer
RcvrNeedsPtrTypeValue == Receiver(FALSE, NameNeedsPtrType, NeedsPtrTypeMethods)

RcvrNeedsPtrTypePtr == Receiver(TRUE, NameNeedsPtrType, NeedsPtrTypeMethods)

\* A type with one method that passes every check of installValidMethods
\* and four that fail one check each: func (t *Mixed) Good(args Args,
\* reply *Reply) error, OneArg(args Args) error, TwoOuts(args Args, reply
\* *Reply) (int, error), NotError(args Args, reply *Reply) int, and the
\* unexported method hide(args Args, reply *Reply) error.
NameMixed == <<"M", "i", "x", "e", "d">>

NameGood == <<"G", "o", "o", "d">>

TypeOfInt == [ptr |-> FALSE, name |-> <<"i", "n", "t">>, pkgPath |-> <<>>]

MixedMethods ==
    LET good == Method(NameGood, NamedType(NameArgs), PtrTo(NamedType(NameReply)))
    IN  {good,
         [good EXCEPT !.name = <<"O", "n", "e", "A", "r", "g">>,
                      !.ins = <<NamedType(NameArgs)>>],
         [good EXCEPT !.name = <<"T", "w", "o", "O", "u", "t", "s">>,
                      !.outs = <<TypeOfInt, TypeOfError>>],
         [good EXCEPT !.name = <<"N", "o", "t", "E", "r", "r", "o", "r">>,
                      !.outs = <<TypeOfInt>>],
         [good EXCEPT !.name = <<"h", "i", "d", "e">>, !.pkgPath = <<"rpc">>]}

RcvrMixed == Receiver(TRUE, NameMixed, MixedMethods)

\* type arith int with the methods of Arith: an unexported receiver type
RcvrUnexported == Receiver(TRUE, <<"a", "r", "i", "t", "h">>, ArithMethods)

\* The receivers handed to Register and RegisterName
Receivers ==
    {RcvrArith, RcvrReplyNotPointer, RcvrArgNotPublic, RcvrReplyNotPublic,
     RcvrNeedsPtrTypeValue, RcvrNeedsPtrTypePtr, RcvrMixed, RcvrUnexported}

\* The names handed to RegisterName
NameCalc == <<"c", "a", "l", "c">>

RegNames == {NameArith, NameCalc}

\* A call of RegisterName as the caller sees it: the arguments, whether
\* the name it registers under was in the service map when it was called,
\* and whether it returned nil.
Registration(map, name, rcvr) ==
    [name |-> name, rcvr |-> rcvr,
     present |-> (IF name # <<>> THEN name ELSE rcvr.name) \in DOMAIN map,
     ok |-> RegisterName(map, name, rcvr).ok]

\* No call of RegisterName yet
NoRegistration ==
    [name |-> <<>>, rcvr |-> Receiver(FALSE, <<>>, {}), present |-> FALSE, ok |-> FALSE]

\* srv.Register(new(Arith)) of startServer
StartRegistration == Registration(EmptyServiceMap, <<>>, RcvrArith)

\* ------------------------------------------------------------------------
\* JSON values as they appear in a request body
\* ------------------------------------------------------------------------

\* A JSON text is the sequence of its characters.  The JSON literal null,
\* a JSON scalar with its exact text, and the object {"A":a,"B":b}.
NullText == <<"n", "u", "l", "l">>

JsonNull == [kind |-> "null", text |-> NullText, A |-> 0, B |-> 0]

JsonScalar(kind, text) == [kind |-> kind, text |-> text, A |-> 0, B |-> 0]

JsonArgs(a, b) == [kind |-> "object", text |-> <<"{", "}">>, A |-> a, B |-> b]

\* A member that is absent from the envelope
Absent == [kind |-> "absent", text |-> <<>>, A |-> 0, B |-> 0]

\* Decoding a member into a field of type *json.RawMessage: an absent member
\* and the literal null leave the pointer nil, any other value is kept as
\* its raw text.
DecodeRawMessage(member) ==
    IF member.kind \in {"absent", "null"}
    THEN [kind |-> "nil", json |-> Absent]
    ELSE [kind |-> "raw", json |-> member]

\* encoding/json writes the output of a Marshaler through compact with
\* escaping on: white space outside strings is dropped and the characters
\* <, > and & are written as the six-character escapes u003c, u003e and
\* u0026 (each after a backslash).
EscapeHTML(c) ==
    CASE c = "<" -> <<"\\", "u", "0", "0", "3", "c">>
      [] c = ">" -> <<"\\", "u", "0", "0", "3", "e">>
      [] c = "&" -> <<"\\", "u", "0", "0", "2", "6">>
      [] OTHER -> <<c>>

RECURSIVE compactFrom(_, _, _, _)
compactFrom(src, i, inString, escaped) ==
    IF i > Len(src) THEN <<>>
    ELSE LET c == src[i]
             out == IF c = " " /\ ~inString THEN <<>> ELSE EscapeHTML(c)
             quote == c = "\"" /\ ~escaped
         IN  out \o compactFrom(src, i + 1,
                                IF quote THEN ~inString ELSE inString,
                                inString /\ c = "\\" /\ ~escaped)

compact(src) == compactFrom(src, 1, FALSE, FALSE)

\* Encoding a field of type *json.RawMessage: a nil pointer is written as
\* null, a raw message as the text it holds, passed through compact.
EncodeRawMessage(ptr) == IF IsNil(ptr) THEN NullText ELSE compact(ptr.json.text)

\* json.Unmarshal of raw params into a value of type Args: the decoded
\* value and whether decoding failed (the value is then left as it was).
Unmarshal(raw, into) ==
    IF raw.kind = "object"
    THEN [val |-> [A |-> raw.A, B |-> raw.B], failed |-> FALSE]
    ELSE [val |-> into, failed |-> TRUE]

\* ------------------------------------------------------------------------
\* rpc/json2/server.go: jsonRequest and readRequest
\* ------------------------------------------------------------------------

Version20 == <<"2", ".", "0">>

Version10 == <<"1", ".", "0">>

\* dec.Decode(&jreq) fails on a body that is not a JSON text and on an
\* envelope whose "jsonrpc" member is neither a string nor null: the field
\* Version is a Go string.
DecodeFails(body) ==
    \/ ~body.wellFormed
    \/ body.jsonrpcKind \notin {"string", "absent", "null"}

\* newJsonRequest after dec.Decode: the envelope members in the fields.
\* An absent "jsonrpc" or "method" member leaves the empty string.
DecodedRequest(body) ==
    [Version |-> IF body.jsonrpcKind = "string" THEN body.jsonrpc ELSE <<>>,
     Method |-> body.method,
     Params |-> DecodeRawMessage(body.params), Id |-> DecodeRawMessage(body.id),
     serviceName |-> <<>>, methodName |-> <<>>]

\* strings.LastIndex(s, "."): index of the last "." counted from 1, or 0.
RECURSIVE LastIndexFrom(_, _)
LastIndexFrom(s, i) ==
    IF i = 0 THEN 0
    ELSE IF s[i] = "." THEN i
    ELSE LastIndexFrom(s, i - 1)

LastIndex(s) == LastIndexFrom(s, Len(s))

newJsonError(code, message, data) ==
    [kind |-> "json", Code |-> code, Message |-> message, Data |-> data]

\* Variant: readRequest accepts every version.
VersionAcceptedAny(v) == TRUE

\* readRequest: jreq.Version != "2.0" is rejected.
VersionAccepted(v) == v = Version20

\* readRequest: the request and the error, Nil on success.
readRequest(body) ==
    LET jreq == DecodedRequest(body)
        dot == LastIndex(jreq.Method)
    IN  IF DecodeFails(body)
        THEN [req |-> jreq,
              err |-> newJsonError(JSON_ERR_INTERNAL, <<"decode error">>, Nil)]
        ELSE IF ~VersionAccepted(jreq.Version)
        THEN [req |-> jreq,
              err |-> newJsonError(JSON_ERR_INVALID_REQ,
                                   <<"RPC-JSON2: Invalid version">>, Nil)]
        ELSE IF dot = 0
        THEN [req |-> jreq,
              err |-> newJsonError(JSON_ERR_INVALID_REQ,
                          <<"RPC-JSON2: service/method request ill-formed: ">>
                              \o jreq.Method, Nil)]
        ELSE [req |-> [jreq EXCEPT !.serviceName = SubSeq(jreq.Method, 1, dot - 1),
                                   !.methodName = SubSeq(jreq.Method, dot + 1,
                                                         Len(jreq.Method))],
              err |-> Nil]

\* ------------------------------------------------------------------------
\* rpc/server.go: Service.Call and Server.ServeRequest, piece by piece
\* ------------------------------------------------------------------------

\* A *ServerError read through its pointer: g is the current content of
\* the package level ErrMethodNotFound.
Deref(err, g) ==
    IF err.global
    THEN [Code |-> g.Code, Message |-> g.Message, Data |-> g.Data]
    ELSE [Code |-> err.Code, Message |-> err.Message, Data |-> err.Data]

\* err.Error()
ErrorText(err, g) ==
    IF err.kind = "plain" THEN err.text
    ELSE <<"Error: (", Deref(err, g).Code, "), ">> \o Deref(err, g).Message

\* ServeRequest when the service map has no entry for the service name
ServiceNotFound(req) ==
    [Value |-> Nil,
     Error |-> NewServerError(ERR_INVALID_REQ,
                              <<"rpc: can't find service ">> \o req.serviceName, Nil)]

\* Call, "Find Method": the methodType or nil
FindMethod(service, req) ==
    IF req.methodName \in DOMAIN service.method
    THEN [kind |-> "methodType", mtype |-> service.method[req.methodName]]
    ELSE [kind |-> "nil", mtype |-> Nil]

\* Variant: the argument is never indirected before the call.
ArgIsValueNever(mtype) == FALSE

\* Call, "Decode the argument value": argIsValue
ArgIsValue(mtype) == ~mtype.argsType.ptr

\* Call, req.DecodeParams(argv.Interface()) on a fresh zero value; the
\* error DecodeParams returns is dropped by Call.
DecodedArgs(req) == Unmarshal(req.Params.json, ZeroArgs).val

\* The argument handed to the method: the value itself or the pointer.
Argv(mtype, args) ==
    [kind |-> IF ArgIsValue(mtype) THEN "value" ELSE "ptr", A |-> args.A, B |-> args.B]

\* replyv.Interface(): the pointer to the reply the method filled in
ReplyPtr(reply) == [kind |-> "ptr", C |-> reply.C]

\* Variant: Call returns the reply also when the method failed.
CallReturnWithReply(reply, err) == [reply |-> ReplyPtr(reply), err |-> err]

\* Call, from the method's return value to Call's own
CallReturn(reply, err) ==
    IF ~IsNil(err)
    THEN [reply |-> Nil, err |-> err]
    ELSE [reply |-> ReplyPtr(reply), err |-> Nil]

\* ServeRequest, the Result built from what Call returned
ServeResult(ret) == [Value |-> ret.reply, Error |-> ret.err]

\* Does DecodeParams dereference a nil Params pointer?
ParamsNilDeref(req) == IsNil(req.Params)

\* ------------------------------------------------------------------------
\* rpc/json2/errors.go and rpc/json2/server.go: the response
\* ------------------------------------------------------------------------

\* Variant: a code that is not one of the six is reported as a server
\* error.
newJsonErrorFromErrorDefault(err, g) ==
    IF err.kind # "server" THEN Nil
    ELSE LET serr == Deref(err, g)
             jcode == IF serr.Code \in {ERR_PARSE, ERR_INVALID_REQ, ERR_NO_METHOD,
                                        ERR_BAD_PARAMS, ERR_INTERNAL, ERR_SERVER}
                      THEN serr.Code ELSE JSON_ERR_SERVER
         IN  newJsonError(jcode, serr.Message, serr.Data)

\* Creates a Json Error from a RPC server error
newJsonErrorFromError(err, g) ==
    IF err.kind # "server" THEN Nil
    ELSE LET serr == Deref(err, g)
             jcode == CASE serr.Code = ERR_PARSE -> JSON_ERR_PARSE
                        [] serr.Code = ERR_INVALID_REQ -> JSON_ERR_INVALID_REQ
                        [] serr.Code = ERR_NO_METHOD -> JSON_ERR_NO_METHOD
                        [] serr.Code = ERR_BAD_PARAMS -> JSON_ERR_BAD_PARAMS
                        [] serr.Code = ERR_INTERNAL -> JSON_ERR_INTERNAL
                        [] serr.Code = ERR_SERVER -> JSON_ERR_SERVER
                        [] OTHER -> serr.Code
         IN  newJsonError(jcode, serr.Message, serr.Data)

\* writeResponse, the jsonResponse it builds
jsonResponse(jreq, result, g) ==
    [Version |-> jreq.Version,
     Id |-> jreq.Id,
     Result |-> IF ~IsNil(result.Error) THEN Nil ELSE result.Value,
     Error |-> IF ~IsNil(result.Error)
               THEN newJsonErrorFromError(result.Error, g) ELSE Nil]

\* enc.Encode(jresp): "jsonrpc" and "id" are always written, "result" and
\* "error" carry omitempty and are written when they are not nil.
Encode(jresp) ==
    [status |-> StatusOK,
     contentType |-> "application/json; charset=utf-8",
     members |-> {"jsonrpc", "id"}
                   \cup (IF IsNil(jresp.Result) THEN {} ELSE {"result"})
                   \cup (IF IsNil(jresp.Error) THEN {} ELSE {"error"}),
     jsonrpc |-> jresp.Version,
     id |-> EncodeRawMessage(jresp.Id),
     result |-> jresp.Result,
     error |-> jresp.Error]

writeResponse(jreq, result, g) == Encode(jsonResponse(jreq, result, g))

\* http.Error(w, text, code): a plain text reply with the given status
HttpError(code) ==
    [status |-> code,
     contentType |-> "text/plain; charset=utf-8",
     members |-> {},
     jsonrpc |-> <<>>,
     id |-> <<>>,
     result |-> Nil,
     error |-> Nil]

\* No reply has been written on the connection.
NoResponse == [HttpError(0) EXCEPT !.contentType = ""]

\* ------------------------------------------------------------------------
\* HTTP requests that arrive
\* ------------------------------------------------------------------------

Dot == <<".">>

NameBad1 == <<"B", "a", "d", "1">>

NameBad2 == <<"B", "a", "d", "2">>

NameUnknown == <<"U", "n", "k", "n", "o", "w", "n">>

\* A request body: wellFormed is whether the body is a JSON object; the
\* other fields are the members of the envelope, jsonrpcKind being the JSON
\* kind of the "jsonrpc" member and jsonrpc its content.
Body(jsonrpc, service, method, params, id) ==
    [wellFormed |-> TRUE, jsonrpcKind |-> "string", jsonrpc |-> jsonrpc,
     method |-> service \o Dot \o method, params |-> params, id |-> id]

\* A body that is not a JSON object
Garbage ==
    [wellFormed |-> FALSE, jsonrpcKind |-> "absent", jsonrpc |-> <<>>, method |-> <<>>,
     params |-> Absent, id |-> Absent]

\* A body whose "method" has no dot
NoDotBody ==
    [wellFormed |-> TRUE, jsonrpcKind |-> "string", jsonrpc |-> Version20,
     method |-> <<"N", "o", "D", "o", "t">>,
     params |-> JsonArgs(7, 8), id |-> JsonScalar("number", <<"4">>)]

\* The requests through which the claims are exercised
BodyAdd == Body(Version20, NameArith, NameAdd, JsonArgs(7, 8), JsonScalar("number", <<"1">>))

BodyMul == Body(Version20, NameArith, NameMul, JsonArgs(7, 8), JsonScalar("string", <<"\"", "x", "\"">>))

BodyDivZero == Body(Version20, NameArith, NameDiv, JsonArgs(7, 0), JsonNull)

BodyDiv == Body(Version20, NameArith, NameDiv, JsonArgs(7, 8), JsonScalar("number", <<"1", ".", "0">>))

BodyBad1 == Body(Version20, NameArith, NameBad1, JsonArgs(7, 0), JsonScalar("number", <<"2">>))

BodyBad2 == Body(Version20, NameArith, NameBad2, JsonArgs(7, 0), JsonScalar("string", <<"\"", "2", "\"">>))

BodyUnknown ==
    Body(Version20, NameUnknown, <<"X">>, JsonArgs(7, 8),
         JsonScalar("string", <<"\"", "a", "<", "b", "\"">>))

BodyNoParams == Body(Version20, NameArith, NameAdd, Absent, JsonScalar("number", <<"5">>))

BodyBadParams ==
    Body(Version20, NameArith, NameAdd, JsonScalar("string", <<"\"", "7", "\"">>), Absent)

BodyDotted == Body(Version20, <<"A", ".", "B">>, <<"C">>, JsonArgs(7, 8), JsonNull)

BodyVersion10 ==
    Body(Version10, NameArith, NameAdd, JsonArgs(7, 8), JsonScalar("number", <<"1">>))

\* {"jsonrpc":2.0,...}: the version as a JSON number
BodyVersionNumber ==
    [Body(Version20, NameArith, NameAdd, JsonArgs(7, 8), JsonScalar("number", <<"6">>))
        EXCEPT !.jsonrpcKind = "number"]

\* An envelope without a "jsonrpc" member
BodyNoVersion ==
    [Body(<<>>, NameArith, NameAdd, JsonArgs(7, 8), JsonScalar("number", <<"7">>))
        EXCEPT !.jsonrpcKind = "absent"]

\* "params":null
BodyNullParams == Body(Version20, NameArith, NameMul, JsonNull, JsonScalar("number", <<"8">>))

\* A notification: an envelope without an "id" member
BodyNotification == Body(Version20, NameArith, NameAdd, JsonArgs(7, 8), Absent)

\* What the clients of one run send: a run draws its bodies from one of
\* these sets.
Workloads ==
    {{BodyAdd, BodyMul, BodyVersion10},
     {BodyBad1, BodyBad2, NoDotBody},
     {BodyDivZero, BodyUnknown, Garbage},
     {BodyNoParams, BodyDiv, BodyNullParams},
     {BodyBadParams, BodyDotted},
     {BodyVersionNumber, BodyNoVersion, BodyNotification}}

Bodies == UNION Workloads

HttpMethods == {"POST", "GET"}

\* ------------------------------------------------------------------------
\* State
\* ------------------------------------------------------------------------

VARIABLES
    workload,           \* the bodies the clients of this run send
    serviceMap,         \* Server.serviceMap
    ErrMethodNotFound,  \* the struct behind rpc.ErrMethodNotFound
    hpc,                \* where each ServeHTTP call stands
    hmethod,            \* r.Method of the HTTP request it serves
    hbody,              \* the body of the HTTP request it serves
    herr,               \* err, as readRequest returned it
    hreq,               \* request, as readRequest returned it
    hres,               \* result, as received from request.Result()
    resp,               \* what has been written to the ResponseWriter
    wpc,                \* where each Worker goroutine stands
    wreq,               \* r, the request the worker holds (by its handler)
    wargv,              \* argv of the method the worker is executing
    wres,               \* result, as ServeRequest returned it
    executing,          \* requests whose user method is running
    dequeuedBy,         \* per request, the workers that received it
    sends,              \* per request, the sends done on its channel
    sentBy,             \* per request, the workers that sent on its channel
    invoked,            \* per request, whether a user method was entered
    events,             \* per request, what has happened to it, in order
    crashed,            \* the process died of a panic in a goroutine
    regLast,            \* the last call of RegisterName and what it returned
    calls,              \* the CallResult handles allocated by client.Call
    spc,                \* where the sender goroutine of the client stands
    scur,               \* call, the handle the sender holds
    seq,                \* client.seq
    closed,             \* Close has been called on the client
    urlOk,              \* http.NewRequest accepts c.remoteURL.String()
    clientCrashed,      \* the client process died of a panic
    dequeueLog,         \* the handles in the order the sender received them
    transportLog,       \* the handles in the order they were given to c.c.Do
    mu,                 \* Server.mu: the writer and the readers that hold it
    regPc,              \* where each call of RegisterName stands
    regArgs,            \* name and rcvr of each call of RegisterName
    regS,               \* s, the Service each call of RegisterName builds
    lookPc,             \* where each lookup of ServeRequest stands
    lookName,           \* req.ServiceName() of each lookup
    lookService,        \* service, as each lookup read it from the map
    trErr,              \* err, the error handed to newJsonErrorFromError
    trJson              \* the *jsonError it returned

vars == <<workload, serviceMap, ErrMethodNotFound, hpc, hmethod, hbody, hreq, herr, hres,
          resp, wpc, wreq, wargv, wres, executing, dequeuedBy, sends, sentBy, invoked,
          events, crashed, regLast, calls, spc, scur, seq, closed, urlOk, clientCrashed,
          dequeueLog, transportLog, mu, regPc, regArgs, regS, lookPc, lookName,
          lookService, trErr, trJson>>

tvars == <<trErr, trJson>>

lvars == <<mu, regPc, regArgs, regS, lookPc, lookName, lookService>>

cvars == <<calls, spc, scur, seq, closed, urlOk, clientCrashed, dequeueLog, transportLog>>

hvars == <<hpc, hmethod, hbody, hreq, herr, hres, resp>>

wvars == <<wpc, wreq, wargv, wres>>

ghost == <<dequeuedBy, sends, sentBy, invoked, events>>

NoRequest == DecodedRequest(Garbage)

NoResult == [Value |-> Nil, Error |-> Nil]

NoArgv == [kind |-> "nil", A |-> 0, B |-> 0]

\* No HTTP request is being served, every worker is at the top of its loop.
Idle ==
    /\ ErrMethodNotFound = ErrMethodNotFoundInit
    /\ hpc = [h \in Handlers |-> "idle"]
    /\ hmethod = [h \in Handlers |-> ""]
    /\ hbody = [h \in Handlers |-> Garbage]
    /\ hreq = [h \in Handlers |-> NoRequest]
    /\ herr = [h \in Handlers |-> Nil]
    /\ hres = [h \in Handlers |-> NoResult]
    /\ resp = [h \in Handlers |-> NoResponse]
    /\ wpc = [w \in Workers |-> "idle"]
    /\ wreq = [w \in Workers |-> 0]
    /\ wargv = [w \in Workers |-> NoArgv]
    /\ wres = [w \in Workers |-> NoResult]
    /\ executing = {}
    /\ dequeuedBy = [h \in Handlers |-> {}]
    /\ sends = [h \in Handlers |-> 0]
    /\ sentBy = [h \in Handlers |-> {}]
    /\ invoked = [h \in Handlers |-> FALSE]
    /\ events = [h \in Handlers |-> <<>>]
    /\ crashed = FALSE

\* NewClientHTTP: no call yet, the sender is at the top of its loop.
ClientIdle ==
    /\ calls = <<>>
    /\ spc = "idle"
    /\ scur = 0
    /\ seq = 0
    /\ closed = FALSE
    /\ clientCrashed = FALSE
    /\ dequeueLog = <<>>
    /\ transportLog = <<>>

\* new(Service): the zero Service
NoService == [name |-> <<>>, rcvr |-> <<>>, method |-> [n \in {} |-> Nil]]

\* A nil *Service
NilService == [kind |-> "nil", s |-> NoService]

\* No call of RegisterName and no lookup is under way; the mutex is free.
LockIdle ==
    /\ mu = [writers |-> {}, readers |-> {}]
    /\ regPc = [g \in Registrars |-> "idle"]
    /\ regArgs = [g \in Registrars |-> [name |-> <<>>, rcvr |-> RcvrArith]]
    /\ regS = [g \in Registrars |-> NoService]
    /\ lookPc = [l \in Lookups |-> "idle"]
    /\ lookName = [l \in Lookups |-> <<>>]
    /\ lookService = [l \in Lookups |-> NilService]

\* newJsonErrorFromError has not been called
NotTranslated == [kind |-> "none", Code |-> 0, Message |-> <<>>, Data |-> Nil]

\* No error is being translated.
TranslateIdle ==
    /\ trErr = Nil
    /\ trJson = NotTranslated

\* The server as startServer leaves it, before the first HTTP request.
Init ==
    /\ workload \in Workloads
    /\ serviceMap = StartServiceMap
    /\ regLast = StartRegistration
    /\ Idle
    /\ ClientIdle
    /\ LockIdle
    /\ TranslateIdle
    /\ urlOk = TRUE

\* ------------------------------------------------------------------------
\* rpc/json2/server.go: handler.ServeHTTP
\* ------------------------------------------------------------------------

\* Variant: the handler serves every HTTP method.
MethodAllowedAny(m) == TRUE

\* r.Method != "POST" is the first test of ServeHTTP.
MethodAllowed(m) == m = "POST"

\* r.Method != "POST": 405 and return.
ServeHTTPNotPost(h) ==
    /\ ~crashed
    /\ hpc[h] = "idle"
    /\ \E m \in HttpMethods :
          /\ ~MethodAllowed(m)
          /\ hmethod' = [hmethod EXCEPT ![h] = m]
    /\ resp' = [resp EXCEPT ![h] = HttpError(StatusMethodNotAllowed)]
    /\ hpc' = [hpc EXCEPT ![h] = "done"]
    /\ UNCHANGED <<cvars, lvars, tvars, workload, serviceMap, regLast, ErrMethodNotFound, hbody, hreq, herr,
                   hres, wvars, executing, ghost, crashed>>

\* POST, readRequest fails: 400 and return.
ServeHTTPBadRequest(h) ==
    /\ ~crashed
    /\ hpc[h] = "idle"
    /\ \E m \in HttpMethods :
          /\ MethodAllowed(m)
          /\ hmethod' = [hmethod EXCEPT ![h] = m]
    /\ \E body \in workload :
          /\ ~IsNil(readRequest(body).err)
          /\ hbody' = [hbody EXCEPT ![h] = body]
          /\ hreq' = [hreq EXCEPT ![h] = readRequest(body).req]
          /\ herr' = [herr EXCEPT ![h] = readRequest(body).err]
    /\ resp' = [resp EXCEPT ![h] = HttpError(StatusBadRequest)]
    /\ hpc' = [hpc EXCEPT ![h] = "done"]
    /\ UNCHANGED <<cvars, lvars, tvars, workload, serviceMap, regLast, ErrMethodNotFound, hres, wvars,
                   executing, ghost, crashed>>

\* POST, readRequest succeeds: the handler reaches h.RequestQueue <- request.
ServeHTTPRead(h) ==
    /\ ~crashed
    /\ hpc[h] = "idle"
    /\ \E m \in HttpMethods :
          /\ MethodAllowed(m)
          /\ hmethod' = [hmethod EXCEPT ![h] = m]
    /\ \E body \in workload :
          /\ IsNil(readRequest(body).err)
          /\ hbody' = [hbody EXCEPT ![h] = body]
          /\ hreq' = [hreq EXCEPT ![h] = readRequest(body).req]
          /\ herr' = [herr EXCEPT ![h] = readRequest(body).err]
    /\ hpc' = [hpc EXCEPT ![h] = "submit"]
    /\ events' = [events EXCEPT ![h] = Append(@, "parsed")]
    /\ UNCHANGED <<cvars, lvars, tvars, workload, serviceMap, regLast, ErrMethodNotFound, hres, resp, wvars,
                   executing, dequeuedBy, sends, sentBy, invoked, crashed>>

\* ------------------------------------------------------------------------
\* rpc/server.go: Worker
\* ------------------------------------------------------------------------

\* Variant: a worker takes the next request while it is still busy with
\* the previous one.
CanReceiveAlways(w) == TRUE

\* A worker takes part in "for r := range requests" when it is at the top
\* of its loop.
CanReceive(w) == wpc[w] = "idle"

\* Variant: the handler does not wait for the Result.
AfterSubmitNoWait == "got"

\* Where the handler stands once its send on RequestQueue is done: at the
\* receive from request.Result()
AfterSubmit == "wait"

\* Variant: one result channel for the whole server instead of one per
\* request; whoever waits may receive.
ResultChannelShared(w) == {h \in Handlers : hpc[h] = "wait"}

\* The channel r.Result() of the request a worker holds, named by the
\* handler that receives from it
ResultChannel(w) == {wreq[w]}

\* Variant: the workers keep the result in one variable they share.
ResultToSendShared(w) == wres[CHOOSE x \in Workers : wpc[x] = "send"]

\* The result a worker sends
ResultToSend(w) == wres[w]

\* h.RequestQueue <- request meets r := range requests: the channel is
\* unbuffered, sender and receiver move together.
WorkerReceive(w, h) ==
    /\ ~crashed
    /\ CanReceive(w)
    /\ hpc[h] = "submit"
    /\ hpc' = [hpc EXCEPT ![h] = AfterSubmit]
    /\ wpc' = [wpc EXCEPT ![w] = "serve"]
    /\ wreq' = [wreq EXCEPT ![w] = h]
    /\ dequeuedBy' = [dequeuedBy EXCEPT ![h] = @ \cup {w}]
    /\ events' = [events EXCEPT ![h] = @ \o <<"submitted", "dequeued">>]
    /\ UNCHANGED <<cvars, lvars, tvars, workload, serviceMap, regLast, ErrMethodNotFound, hmethod, hbody, hreq,
                   herr, hres, resp, wargv, wres, executing, sends, sentBy, invoked,
                   crashed>>

\* ServeRequest: service == nil
ServeUnknownService(w) ==
    /\ ~crashed
    /\ wpc[w] = "serve"
    /\ hreq[wreq[w]].serviceName \notin DOMAIN serviceMap
    /\ wres' = [wres EXCEPT ![w] = ServiceNotFound(hreq[wreq[w]])]
    /\ wpc' = [wpc EXCEPT ![w] = "send"]
    /\ UNCHANGED <<cvars, lvars, tvars, workload, serviceMap, regLast, ErrMethodNotFound, hvars, wreq, wargv, executing,
                   ghost, crashed>>

\* ServeRequest, Call: serviceMethod == nil
ServeUnknownMethod(w) ==
    /\ ~crashed
    /\ wpc[w] = "serve"
    /\ hreq[wreq[w]].serviceName \in DOMAIN serviceMap
    /\ LET req == hreq[wreq[w]]
           service == serviceMap[req.serviceName]
       IN  /\ IsNil(FindMethod(service, req))
           /\ ErrMethodNotFound' =
                 [ErrMethodNotFound EXCEPT !.Data = StringData(req.methodName)]
           /\ wres' = [wres EXCEPT ![w] =
                          ServeResult([reply |-> Nil, err |-> ErrMethodNotFoundPtr])]
    /\ wpc' = [wpc EXCEPT ![w] = "send"]
    /\ UNCHANGED <<cvars, lvars, tvars, workload, serviceMap, regLast, hvars, wreq, wargv, executing, ghost, crashed>>

\* ServeRequest, Call: DecodeParams dereferences the nil Params pointer;
\* the panic in the worker goroutine ends the process.
ServePanic(w) ==
    /\ ~crashed
    /\ wpc[w] = "serve"
    /\ hreq[wreq[w]].serviceName \in DOMAIN serviceMap
    /\ LET req == hreq[wreq[w]]
           service == serviceMap[req.serviceName]
       IN  /\ ~IsNil(FindMethod(service, req))
           /\ ParamsNilDeref(req)
    /\ crashed' = TRUE
    /\ UNCHANGED <<cvars, lvars, tvars, workload, serviceMap, regLast, ErrMethodNotFound, hvars, wvars, executing, ghost>>

\* ServeRequest, Call: the arguments are decoded and function.Call enters
\* the user method.
ServeInvoke(w) ==
    /\ ~crashed
    /\ wpc[w] = "serve"
    /\ hreq[wreq[w]].serviceName \in DOMAIN serviceMap
    /\ LET req == hreq[wreq[w]]
           service == serviceMap[req.serviceName]
           found == FindMethod(service, req)
       IN  /\ ~IsNil(found)
           /\ ~ParamsNilDeref(req)
           /\ wargv' = [wargv EXCEPT ![w] = Argv(found.mtype, DecodedArgs(req))]
    /\ executing' = executing \cup {wreq[w]}
    /\ invoked' = [invoked EXCEPT ![wreq[w]] = TRUE]
    /\ events' = [events EXCEPT ![wreq[w]] = Append(@, "invoked")]
    /\ wpc' = [wpc EXCEPT ![w] = "call"]
    /\ UNCHANGED <<cvars, lvars, tvars, workload, serviceMap, regLast, ErrMethodNotFound, hvars, wreq, wres,
                   dequeuedBy, sends, sentBy, crashed>>

\* The user method returns; Call and ServeRequest return.
MethodReturn(w) ==
    /\ ~crashed
    /\ wpc[w] = "call"
    /\ LET req == hreq[wreq[w]]
           ret == UserMethod(req.methodName, wargv[w], ZeroReply)
       IN  wres' = [wres EXCEPT ![w] = ServeResult(CallReturn(ret.reply, ret.err))]
    /\ executing' = executing \ {wreq[w]}
    /\ wargv' = [wargv EXCEPT ![w] = NoArgv]
    /\ wpc' = [wpc EXCEPT ![w] = "send"]
    /\ UNCHANGED <<cvars, lvars, tvars, workload, serviceMap, regLast, ErrMethodNotFound, hvars, wreq, ghost, crashed>>

\* r.Result() <- result meets result := <-request.Result(): the channel
\* is unbuffered.
WorkerSend(w, h) ==
    /\ ~crashed
    /\ wpc[w] = "send"
    /\ h \in ResultChannel(w)
    /\ hpc[h] = "wait"
    /\ hres' = [hres EXCEPT ![h] = ResultToSend(w)]
    /\ hpc' = [hpc EXCEPT ![h] = "got"]
    /\ wpc' = [wpc EXCEPT ![w] = "idle"]
    /\ wreq' = [wreq EXCEPT ![w] = 0]
    /\ wres' = [wres EXCEPT ![w] = NoResult]
    /\ sends' = [sends EXCEPT ![h] = @ + 1]
    /\ sentBy' = [sentBy EXCEPT ![h] = @ \cup {w}]
    /\ events' = [events EXCEPT ![h] = @ \o <<"sent", "received">>]
    /\ UNCHANGED <<cvars, lvars, tvars, workload, serviceMap, regLast, ErrMethodNotFound, hmethod, hbody, hreq,
                   herr, resp, wargv, executing, dequeuedBy, invoked, crashed>>

\* ServeHTTP after the receive: the headers are set and writeResponse
\* writes the body.
WriteResponse(h) ==
    /\ ~crashed
    /\ hpc[h] = "got"
    /\ resp' = [resp EXCEPT ![h] = writeResponse(hreq[h], hres[h], ErrMethodNotFound)]
    /\ hpc' = [hpc EXCEPT ![h] = "done"]
    /\ events' = [events EXCEPT ![h] = @ \o <<"headers", "written">>]
    /\ UNCHANGED <<cvars, lvars, tvars, workload, serviceMap, regLast, ErrMethodNotFound, hmethod, hbody, hreq,
                   herr, hres, wvars, executing, dequeuedBy, sends, sentBy, invoked,
                   crashed>>

\* ServeHTTP has returned; the connection is ready for its next request.
Finish(h) ==
    /\ ~crashed
    /\ hpc[h] = "done"
    /\ hpc' = [hpc EXCEPT ![h] = "idle"]
    /\ hmethod' = [hmethod EXCEPT ![h] = ""]
    /\ hbody' = [hbody EXCEPT ![h] = Garbage]
    /\ hreq' = [hreq EXCEPT ![h] = NoRequest]
    /\ herr' = [herr EXCEPT ![h] = Nil]
    /\ hres' = [hres EXCEPT ![h] = NoResult]
    /\ resp' = [resp EXCEPT ![h] = NoResponse]
    /\ dequeuedBy' = [dequeuedBy EXCEPT ![h] = {}]
    /\ sends' = [sends EXCEPT ![h] = 0]
    /\ sentBy' = [sentBy EXCEPT ![h] = {}]
    /\ invoked' = [invoked EXCEPT ![h] = FALSE]
    /\ events' = [events EXCEPT ![h] = <<>>]
    /\ UNCHANGED <<cvars, lvars, tvars, workload, serviceMap, regLast, ErrMethodNotFound, wvars, executing, crashed>>

Next ==
    \/ \E h \in Handlers : ServeHTTPNotPost(h)
    \/ \E h \in Handlers : ServeHTTPBadRequest(h)
    \/ \E h \in Handlers : ServeHTTPRead(h)
    \/ \E w \in Workers, h \in Handlers : WorkerReceive(w, h)
    \/ \E w \in Workers : ServeUnknownService(w)
    \/ \E w \in Workers : ServeUnknownMethod(w)
    \/ \E w \in Workers : ServePanic(w)
    \/ \E w \in Workers : ServeInvoke(w)
    \/ \E w \in Workers : MethodReturn(w)
    \/ \E w \in Workers, h \in Handlers : WorkerSend(w, h)
    \/ \E h \in Handlers : WriteResponse(h)
    \/ \E h \in Handlers : Finish(h)

Spec == Init /\ [][Next]_vars

\* The goroutines under the Go scheduler: a goroutine that can run does
\* run; senders blocked on a channel are served in the order they arrived,
\* so a handler blocked on RequestQueue is not passed over for ever.  The
\* arrival of HTTP requests is left to the clients.
WorkerStep(w) ==
    \/ ServeUnknownService(w)
    \/ ServeUnknownMethod(w)
    \/ ServePanic(w)
    \/ ServeInvoke(w)
    \/ MethodReturn(w)
    \/ \E h \in Handlers : WorkerSend(w, h)

Fairness ==
    /\ \A w \in Workers : WF_vars(WorkerStep(w))
    /\ \A h \in Handlers : SF_vars(\E w \in Workers : WorkerReceive(w, h))
    /\ \A h \in Handlers : WF_vars(WriteResponse(h) \/ Finish(h))

FairSpec == Spec /\ Fairness

\* ------------------------------------------------------------------------
\* rpc/server.go: Register and RegisterName on a new server
\* ------------------------------------------------------------------------

\* NewServer: an empty service map; no request is served yet.
RegInit ==
    /\ workload = {}
    /\ serviceMap = EmptyServiceMap
    /\ regLast = NoRegistration
    /\ Idle
    /\ ClientIdle
    /\ LockIdle
    /\ TranslateIdle
    /\ urlOk = TRUE

\* server.Register(rcvr)
Register(rcvr) ==
    /\ serviceMap' = RegisterName(serviceMap, <<>>, rcvr).map
    /\ regLast' = Registration(serviceMap, <<>>, rcvr)
    /\ UNCHANGED <<cvars, lvars, tvars, workload, ErrMethodNotFound, hvars, wvars, executing, ghost, crashed>>

\* server.RegisterName(name, rcvr) with a name that is not empty
RegisterNamed(name, rcvr) ==
    /\ name # <<>>
    /\ serviceMap' = RegisterName(serviceMap, name, rcvr).map
    /\ regLast' = Registration(serviceMap, name, rcvr)
    /\ UNCHANGED <<cvars, lvars, tvars, workload, ErrMethodNotFound, hvars, wvars, executing, ghost, crashed>>

RegNext ==
    \/ \E rcvr \in Receivers : Register(rcvr)
    \/ \E name \in RegNames, rcvr \in Receivers : RegisterNamed(name, rcvr)

RegSpec == RegInit /\ [][RegNext]_vars

\* ------------------------------------------------------------------------
\* rpc/server.go: RegisterName while ServeRequest looks services up
\* ------------------------------------------------------------------------

\* The calls of RegisterName made while requests are served
LockRegistrations ==
    {[name |-> <<>>, rcvr |-> RcvrArith],
     [name |-> NameCalc, rcvr |-> RcvrArith],
     [name |-> <<>>, rcvr |-> RcvrMixed],
     [name |-> <<>>, rcvr |-> RcvrReplyNotPointer],
     [name |-> NameCalc, rcvr |-> RcvrUnexported]}

\* The service names of the requests that are served meanwhile
LookNames == {NameArith, NameCalc, NameMixed}

\* sync.RWMutex: Lock waits until no writer and no reader holds the mutex.
CanLock(m) == m.writers = {} /\ m.readers = {}

\* Variant: RLock does not wait for the writer.
CanRLockAlways(m) == TRUE

\* sync.RWMutex: RLock waits until no writer holds the mutex; readers do
\* not wait for each other.
CanRLock(m) == m.writers = {}

\* The name RegisterName registers under
ServiceName(args) == IF args.name # <<>> THEN args.name ELSE args.rcvr.name

LockInit ==
    /\ workload = {}
    /\ serviceMap = EmptyServiceMap
    /\ regLast = NoRegistration
    /\ Idle
    /\ ClientIdle
    /\ LockIdle
    /\ TranslateIdle
    /\ urlOk = TRUE

\* What the registration and lookup steps leave alone
ovars == <<cvars, tvars, workload, regLast, ErrMethodNotFound, hvars, wvars, executing,
           ghost, crashed>>

\* RegisterName: server.mu.Lock(); s := new(Service) with typ and rcvr
RegLock(g, args) ==
    /\ regPc[g] = "idle"
    /\ CanLock(mu)
    /\ mu' = [mu EXCEPT !.writers = @ \cup {g}]
    /\ regArgs' = [regArgs EXCEPT ![g] = args]
    /\ regS' = [regS EXCEPT ![g] = [NoService EXCEPT !.rcvr = args.rcvr.name]]
    /\ regPc' = [regPc EXCEPT ![g] = "new"]
    /\ UNCHANGED <<ovars, serviceMap, lookPc, lookName, lookService>>

\* The return of RegisterName: the deferred server.mu.Unlock()
RegReturn(g) ==
    /\ mu' = [mu EXCEPT !.writers = @ \ {g}]
    /\ regS' = [regS EXCEPT ![g] = NoService]
    /\ regPc' = [regPc EXCEPT ![g] = "idle"]
    /\ UNCHANGED <<ovars, serviceMap, regArgs, lookPc, lookName, lookService>>

\* !isExported(sname): return the error
RegNotExported(g) ==
    /\ regPc[g] = "new"
    /\ ~isExported(regArgs[g].rcvr.name)
    /\ RegReturn(g)

\* The name is present in the service map: return the error
RegPresent(g) ==
    /\ regPc[g] = "new"
    /\ isExported(regArgs[g].rcvr.name)
    /\ ServiceName(regArgs[g]) \in DOMAIN serviceMap
    /\ RegReturn(g)

\* s.name = sname
RegSetName(g) ==
    /\ regPc[g] = "new"
    /\ isExported(regArgs[g].rcvr.name)
    /\ ServiceName(regArgs[g]) \notin DOMAIN serviceMap
    /\ regS' = [regS EXCEPT ![g].name = ServiceName(regArgs[g])]
    /\ regPc' = [regPc EXCEPT ![g] = "named"]
    /\ UNCHANGED <<ovars, serviceMap, mu, regArgs, lookPc, lookName, lookService>>

\* s.method = installValidMethods(s.typ)
RegInstall(g) ==
    /\ regPc[g] = "named"
    /\ regS' = [regS EXCEPT ![g].method = installValidMethods(regArgs[g].rcvr.methods)]
    /\ regPc' = [regPc EXCEPT ![g] = "installed"]
    /\ UNCHANGED <<ovars, serviceMap, mu, regArgs, lookPc, lookName, lookService>>

\* len(s.method) == 0: return the error
RegNoMethods(g) ==
    /\ regPc[g] = "installed"
    /\ DOMAIN regS[g].method = {}
    /\ RegReturn(g)

\* server.serviceMap[s.name] = s
RegPublish(g) ==
    /\ regPc[g] = "installed"
    /\ DOMAIN regS[g].method # {}
    /\ serviceMap' = [n \in DOMAIN serviceMap \cup {regS[g].name} |->
                         IF n = regS[g].name THEN regS[g] ELSE serviceMap[n]]
    /\ regPc' = [regPc EXCEPT ![g] = "published"]
    /\ UNCHANGED <<ovars, mu, regArgs, regS, lookPc, lookName, lookService>>

\* return nil
RegDone(g) ==
    /\ regPc[g] = "published"
    /\ RegReturn(g)

\* ServeRequest: server.mu.RLock()
LookupRLock(l, name) ==
    /\ lookPc[l] = "idle"
    /\ CanRLock(mu)
    /\ mu' = [mu EXCEPT !.readers = @ \cup {l}]
    /\ lookName' = [lookName EXCEPT ![l] = name]
    /\ lookPc' = [lookPc EXCEPT ![l] = "rlocked"]
    /\ UNCHANGED <<ovars, serviceMap, regPc, regArgs, regS, lookService>>

\* service := server.serviceMap[req.ServiceName()]
LookupRead(l) ==
    /\ lookPc[l] = "rlocked"
    /\ lookService' = [lookService EXCEPT ![l] =
                          IF lookName[l] \in DOMAIN serviceMap
                          THEN [kind |-> "ptr", s |-> serviceMap[lookName[l]]]
                          ELSE NilService]
    /\ lookPc' = [lookPc EXCEPT ![l] = "read"]
    /\ UNCHANGED <<ovars, serviceMap, mu, regPc, regArgs, regS, lookName>>

\* server.mu.RUnlock()
LookupRUnlock(l) ==
    /\ lookPc[l] = "read"
    /\ mu' = [mu EXCEPT !.readers = @ \ {l}]
    /\ lookPc' = [lookPc EXCEPT ![l] = "serve"]
    /\ UNCHANGED <<ovars, serviceMap, regPc, regArgs, regS, lookName, lookService>>

\* The rest of ServeRequest: the "can't find service" error or
\* service.Call(req), and the return
LookupServe(l) ==
    /\ lookPc[l] = "serve"
    /\ lookService' = [lookService EXCEPT ![l] = NilService]
    /\ lookName' = [lookName EXCEPT ![l] = <<>>]
    /\ lookPc' = [lookPc EXCEPT ![l] = "idle"]
    /\ UNCHANGED <<ovars, serviceMap, mu, regPc, regArgs, regS>>

LockNext ==
    \/ \E g \in Registrars, args \in LockRegistrations : RegLock(g, args)
    \/ \E g \in Registrars : RegNotExported(g)
    \/ \E g \in Registrars : RegPresent(g)
    \/ \E g \in Registrars : RegSetName(g)
    \/ \E g \in Registrars : RegInstall(g)
    \/ \E g \in Registrars : RegNoMethods(g)
    \/ \E g \in Registrars : RegPublish(g)
    \/ \E g \in Registrars : RegDone(g)
    \/ \E l \in Lookups, name \in LookNames : LookupRLock(l, name)
    \/ \E l \in Lookups : LookupRead(l)
    \/ \E l \in Lookups : LookupRUnlock(l)
    \/ \E l \in Lookups : LookupServe(l)

LockSpec == LockInit /\ [][LockNext]_vars

\* ------------------------------------------------------------------------
\* rpc/json2/errors.go: newJsonErrorFromError on its own
\* ------------------------------------------------------------------------

\* The codes of the errors translated: the six of rpc/errors.go, the ends
\* of the reserved range and codes outside it, those of user services
\* among them
TranslateCodes ==
    {ERR_PARSE, ERR_INVALID_REQ, ERR_NO_METHOD, ERR_BAD_PARAMS, ERR_INTERNAL, ERR_SERVER,
     ReservedLow, ERR_SERVER - 1, ERR_SERVER + 1, -1, 0, 1, 1000, 1001}

TranslateMessages == {<<>>, <<"divide by zero">>, <<"Invalid method parameter(s).">>}

TranslateData == {Nil, StringData(NameBad1), StringData(<<>>)}

\* The errors handed to newJsonErrorFromError: *ServerError values, the
\* shared ErrMethodNotFound, and an error of another type
TranslateErrors ==
    {NewServerError(c, m, dt) : c \in TranslateCodes, m \in TranslateMessages,
                                dt \in TranslateData}
        \cup {ErrMethodNotFoundPtr, DivideByZero}

TranslateInit ==
    /\ workload = {}
    /\ serviceMap = StartServiceMap
    /\ regLast = StartRegistration
    /\ Idle
    /\ ClientIdle
    /\ LockIdle
    /\ urlOk = TRUE
    /\ trErr \in TranslateErrors
    /\ trJson = NotTranslated

\* jresp.Error = newJsonErrorFromError(result.Error)
Translate ==
    /\ trJson = NotTranslated
    /\ trJson' = newJsonErrorFromError(trErr, ErrMethodNotFound)
    /\ UNCHANGED <<cvars, lvars, workload, serviceMap, regLast, ErrMethodNotFound, hvars,
                   wvars, executing, ghost, crashed, trErr>>

TranslateNext == Translate

TranslateSpec == TranslateInit /\ [][TranslateNext]_vars

\* ------------------------------------------------------------------------
\* rpc/json2/client.go: the client
\* ------------------------------------------------------------------------

\* make(chan *rpc.CallResult) in Call: the capacity of the Done channel
DoneCapacity == 0

Digits == <<"0", "1", "2", "3", "4", "5", "6", "7", "8", "9">>

\* json.Marshal of a uint64: its decimal digits
RECURSIVE FormatUint(_)
FormatUint(n) ==
    IF n < 10 THEN <<Digits[n + 1]>>
    ELSE FormatUint(n \div 10) \o <<Digits[(n % 10) + 1]>>

\* What the callers hand to Call: the service method, the arguments
\* &Args{A, B}, and whether json.Marshal accepts the arguments (it rejects
\* a value that holds a channel or a function).
CallInput(serviceMethod, a, b, encodable) ==
    [ServiceMethod |-> serviceMethod, A |-> a, B |-> b, encodable |-> encodable]

NameBadOperation == <<"B", "a", "d", "O", "p", "e", "r", "a", "t", "i", "o", "n">>

CallInputs ==
    {CallInput(NameArith \o Dot \o NameAdd, 7, 8, TRUE),
     CallInput(NameArith \o Dot \o NameMul, 7, 8, TRUE),
     CallInput(NameArith \o Dot \o NameDiv, 7, 0, TRUE),
     CallInput(NameArith \o Dot \o NameBadOperation, 7, 0, TRUE),
     CallInput(NameArith \o Dot \o NameAdd, 1, 2, FALSE)}

\* result := new(rpc.CallResult) as Call fills it in, with the state of
\* the handle: "offered" while Call is blocked in c.queue <- result,
\* "accepted" once the sender has received it, "received" once the caller
\* has received it from Done.
NewCallResult(c, in) ==
    [caller |-> c, ServiceMethod |-> in.ServiceMethod, A |-> in.A, B |-> in.B,
     encodable |-> in.encodable, doneCap |-> DoneCapacity,
     state |-> "offered", id |-> 0, resp |-> NoResponse, Error |-> Nil, replyC |-> 0,
     publishes |-> 0]

\* Variant: the id is read before the counter is incremented.
EnvelopeIdBeforeIncrement(n) == n

\* c.seq++ and then Id: uint64(c.seq)
EnvelopeId(n) == n + 1

\* creq, and the body encodeClientRequest makes of it
clientRequest(call, id) ==
    [Version |-> Version20, Method |-> call.ServiceMethod, A |-> call.A, B |-> call.B,
     Id |-> id]

encodeClientRequest(creq) ==
    [wellFormed |-> TRUE, jsonrpcKind |-> "string", jsonrpc |-> creq.Version,
     method |-> creq.Method, params |-> JsonArgs(creq.A, creq.B),
     id |-> JsonScalar("number", FormatUint(creq.Id))]

\* The server of the tests answering one request on its own: ServeRequest
\* and Call from the first line to the last.
ServeRequest(req) ==
    IF req.serviceName \notin DOMAIN StartServiceMap
    THEN [result |-> ServiceNotFound(req), g |-> ErrMethodNotFoundInit]
    ELSE LET found == FindMethod(StartServiceMap[req.serviceName], req)
         IN  IF IsNil(found)
             THEN [result |-> ServeResult([reply |-> Nil, err |-> ErrMethodNotFoundPtr]),
                   g |-> [ErrMethodNotFoundInit EXCEPT !.Data = StringData(req.methodName)]]
             ELSE LET ret == UserMethod(req.methodName,
                                        Argv(found.mtype, DecodedArgs(req)), ZeroReply)
                  IN  [result |-> ServeResult(CallReturn(ret.reply, ret.err)),
                       g |-> ErrMethodNotFoundInit]

\* handler.ServeHTTP for a POST with the given body
ServeHTTP(body) ==
    LET read == readRequest(body)
    IN  IF ~IsNil(read.err) THEN HttpError(StatusBadRequest)
        ELSE LET served == ServeRequest(read.req)
             IN  writeResponse(read.req, served.result, served.g)

\* Is the text the decimal form of a uint64?
IsUintText(t) ==
    /\ Len(t) > 0
    /\ \A i \in 1..Len(t) : \E j \in 1..Len(Digits) : t[i] = Digits[j]

\* decodeServerResponse, dec.Decode(&cresp): fails on a body that is not
\* JSON and on an id that is neither a number nor null.
DecodeResponseFails(rsp) ==
    \/ rsp.members = {}
    \/ ~(IsUintText(rsp.id) \/ rsp.id = NullText)

\* decodeServerResponse dereferences cresp.Result when cresp.Error is nil.
ResultNilDeref(rsp) ==
    /\ ~DecodeResponseFails(rsp)
    /\ "error" \notin rsp.members
    /\ "result" \notin rsp.members

\* decodeServerResponse: the error it returns and the reply destination.
\* cres.Error is the nil error interface of the new handle, so
\* json.Unmarshal(*cresp.Error, cres.Error) returns InvalidUnmarshalError.
decodeServerResponse(rsp, call) ==
    IF DecodeResponseFails(rsp)
    THEN [Error |-> PlainError(<<"invalid character">>), replyC |-> call.replyC]
    ELSE IF "error" \in rsp.members
    THEN [Error |-> PlainError(<<"json: Unmarshal(nil)">>), replyC |-> call.replyC]
    ELSE [Error |-> Nil, replyC |-> rsp.result.C]

\* NewClientHTTP; the server of the tests is up.
ClientInit ==
    /\ workload = {}
    /\ serviceMap = StartServiceMap
    /\ regLast = StartRegistration
    /\ Idle
    /\ ClientIdle
    /\ LockIdle
    /\ TranslateIdle
    /\ urlOk \in BOOLEAN

svars == <<workload, serviceMap, regLast, ErrMethodNotFound, hvars, wvars, executing,
           ghost, crashed, lvars, tvars>>

\* The handles of a caller that are still in c.queue <- result
Offered(c) == {k \in 1..Len(calls) : calls[k].caller = c /\ calls[k].state = "offered"}

\* Variant: Call hands the handle to the queue from a goroutine of its own
\* and returns at once.
CanCallAlways(c) == TRUE

\* A goroutine is in one Call at a time: Call returns when the sender has
\* received the handle from the queue.
CanCall(c) == Offered(c) = {}

\* Call up to c.queue <- result
Call(c, in) ==
    /\ ~clientCrashed
    /\ CanCall(c)
    /\ Len(calls) < MaxCalls
    /\ calls' = Append(calls, NewCallResult(c, in))
    /\ UNCHANGED <<svars, spc, scur, seq, closed, urlOk, clientCrashed, dequeueLog,
                   transportLog>>

\* Close
Close(c) ==
    /\ ~clientCrashed
    /\ Offered(c) = {}
    /\ ~closed
    /\ closed' = TRUE
    /\ UNCHANGED <<svars, calls, spc, scur, seq, urlOk, clientCrashed, dequeueLog,
                   transportLog>>

\* Variant: the sender takes the next handle from the queue while it is
\* still busy with the current one.
CanDequeueAlways == TRUE

\* The sender is at call := <- c.queue only at the top of its loop.
CanDequeue == spc = "idle"

\* sender: call := <- c.queue meets c.queue <- result of a Call; c.seq++
\* and creq under the mutex.
SenderDequeue(k) ==
    /\ ~clientCrashed
    /\ CanDequeue
    /\ k \in 1..Len(calls)
    /\ calls[k].state = "offered"
    /\ seq' = seq + 1
    /\ calls' = [calls EXCEPT ![k].state = "accepted", ![k].id = EnvelopeId(seq)]
    /\ scur' = k
    /\ dequeueLog' = Append(dequeueLog, k)
    /\ spc' = "encode"
    /\ UNCHANGED <<svars, closed, urlOk, clientCrashed, transportLog>>

\* sender: encodeClientRequest fails
SenderEncodeFail ==
    /\ ~clientCrashed
    /\ spc = "encode"
    /\ ~calls[scur].encodable
    /\ calls' = [calls EXCEPT ![scur].Error = PlainError(<<"json: unsupported type">>)]
    /\ spc' = "publish"
    /\ UNCHANGED <<svars, scur, seq, closed, urlOk, clientCrashed, dequeueLog,
                   transportLog>>

\* sender: http.NewRequest fails
SenderNewRequestFail ==
    /\ ~clientCrashed
    /\ spc = "encode"
    /\ calls[scur].encodable
    /\ ~urlOk
    /\ calls' = [calls EXCEPT ![scur].Error = PlainError(<<"net/http: invalid URL">>)]
    /\ spc' = "publish"
    /\ UNCHANGED <<svars, scur, seq, closed, urlOk, clientCrashed, dequeueLog,
                   transportLog>>

\* sender: the request is built and handed to c.c.Do
SenderDo ==
    /\ ~clientCrashed
    /\ spc = "encode"
    /\ calls[scur].encodable
    /\ urlOk
    /\ transportLog' = Append(transportLog, scur)
    /\ spc' = "do"
    /\ UNCHANGED <<svars, calls, scur, seq, closed, urlOk, clientCrashed, dequeueLog>>

\* sender: c.c.Do returns an error
SenderDoFail ==
    /\ ~clientCrashed
    /\ spc = "do"
    /\ calls' = [calls EXCEPT ![scur].Error = PlainError(<<"connection refused">>)]
    /\ spc' = "publish"
    /\ UNCHANGED <<svars, scur, seq, closed, urlOk, clientCrashed, dequeueLog,
                   transportLog>>

\* sender: c.c.Do returns the response of the server and
\* decodeServerResponse returns.
SenderDecode ==
    /\ ~clientCrashed
    /\ spc = "do"
    /\ LET call == calls[scur]
           rsp == ServeHTTP(encodeClientRequest(clientRequest(call, call.id)))
           dec == decodeServerResponse(rsp, call)
       IN  /\ ~ResultNilDeref(rsp)
           /\ calls' = [calls EXCEPT ![scur].resp = rsp, ![scur].Error = dec.Error,
                                     ![scur].replyC = dec.replyC]
    /\ spc' = "publish"
    /\ UNCHANGED <<svars, scur, seq, closed, urlOk, clientCrashed, dequeueLog,
                   transportLog>>

\* sender: decodeServerResponse dereferences the nil cresp.Result; the
\* panic in the sender goroutine ends the process.
SenderPanic ==
    /\ ~clientCrashed
    /\ spc = "do"
    /\ LET call == calls[scur]
           rsp == ServeHTTP(encodeClientRequest(clientRequest(call, call.id)))
       IN  /\ ResultNilDeref(rsp)
           /\ calls' = [calls EXCEPT ![scur].resp = rsp]
    /\ clientCrashed' = TRUE
    /\ UNCHANGED <<svars, spc, scur, seq, closed, urlOk, dequeueLog, transportLog>>

\* sender: call.Done <- call meets <- result.Done of the caller; the Done
\* channel has no buffer, so the send completes together with the receive.
Publish(c) ==
    /\ ~clientCrashed
    /\ spc = "publish"
    /\ calls[scur].caller = c
    /\ Offered(c) = {}
    /\ calls' = [calls EXCEPT ![scur].state = "received", ![scur].publishes = @ + 1]
    /\ spc' = "idle"
    /\ scur' = 0
    /\ UNCHANGED <<svars, seq, closed, urlOk, clientCrashed, dequeueLog, transportLog>>

SenderStep ==
    \/ SenderEncodeFail
    \/ SenderNewRequestFail
    \/ SenderDo
    \/ SenderDoFail
    \/ SenderDecode
    \/ SenderPanic

ClientNext ==
    \/ \E c \in Callers, in \in CallInputs : Call(c, in)
    \/ \E c \in Callers : Close(c)
    \/ \E k \in 1..MaxCalls : SenderDequeue(k)
    \/ SenderEncodeFail
    \/ SenderNewRequestFail
    \/ SenderDo
    \/ SenderDoFail
    \/ SenderDecode
    \/ SenderPanic
    \/ \E c \in Callers : Publish(c)

ClientSpec == ClientInit /\ [][ClientNext]_vars

\* The sender goroutine runs when it can; a handle offered on the queue is
\* taken when the sender comes back to the top of its loop; a caller that
\* is at <- result.Done takes the handle.
ClientFairness ==
    /\ WF_vars(SenderStep)
    /\ WF_vars(\E k \in 1..MaxCalls : SenderDequeue(k))
    /\ \A c \in Callers : WF_vars(Publish(c))

ClientFairSpec == ClientSpec /\ ClientFairness

\* ------------------------------------------------------------------------
\* Properties
\* ------------------------------------------------------------------------

\* The handler has the Result of its request in hand.
HasResult(h) == hpc[h] = "got" \/ (hpc[h] = "done" /\ resp[h].status = StatusOK)

\* The JSON-RPC response of the handler has been written.
Written(h) == hpc[h] = "done" /\ resp[h].status = StatusOK

\* The request names a registered service and a method of that service.
ResolvesToMethod(req) ==
    /\ req.serviceName \in DOMAIN serviceMap
    /\ req.methodName \in DOMAIN serviceMap[req.serviceName].method

\* C1: on the completion channel of every submitted request at most one
\* Result is sent, exactly one once the handler has its Result; it is sent
\* by the one worker that dequeued the request, after ServeRequest has
\* returned, and by no other worker.
C1_ExactlyOneResult ==
    \A h \in Handlers :
        /\ sends[h] <= 1
        /\ Cardinality(dequeuedBy[h]) <= 1
        /\ sentBy[h] \subseteq dequeuedBy[h]
        /\ HasResult(h) => sends[h] = 1
        /\ hpc[h] \in {"idle", "submit", "wait"} => sends[h] = 0
        /\ \A w \in Workers : wreq[w] = h => dequeuedBy[h] = {w}
        /\ \A w \in Workers : w \in sentBy[h] => wreq[w] # h

\* C1 witness: a handler has received the one Result of its request while
\* the other worker is busy with another request.
C1_Witness ==
    \E h \in Handlers, w \in Workers :
        /\ hpc[h] = "got" /\ sends[h] = 1
        /\ wpc[w] = "send" /\ wreq[w] # h /\ w \notin sentBy[h]

\* C2: every request submitted to RequestQueue is eventually dequeued,
\* served and its Result received by the handler that submitted it.
C2_EveryRequestServed ==
    \A h \in Handlers : (hpc[h] = "submit") ~> (hpc[h] = "got")

\* C3: at most W user service methods are executing at the same time.
C3_WorkersBound == Cardinality(executing) <= NumWorkers

\* C3 witness: W user methods are executing and, when there are more
\* handlers than workers, a further handler is blocked on RequestQueue.
C3_Witness ==
    /\ Cardinality(executing) = NumWorkers
    /\ NumHandlers > NumWorkers => \E h \in Handlers : hpc[h] = "submit"

\* What Arith.Add, Arith.Mul and Arith.Div compute from A and B
Arith(name, a, b) ==
    CASE name = NameAdd -> a + b
      [] name = NameMul -> a * b
      [] name = NameDiv -> a \div b

\* The value a JSON text stands for, as far as escapes go: the escapes
\* that compact writes read as <, > and &.
RECURSIVE JsonValueFrom(_, _)
JsonValueFrom(t, i) ==
    IF i > Len(t) THEN <<>>
    ELSE IF i + 5 <= Len(t) /\ SubSeq(t, i, i + 5) = EscapeHTML("<")
    THEN <<"<">> \o JsonValueFrom(t, i + 6)
    ELSE IF i + 5 <= Len(t) /\ SubSeq(t, i, i + 5) = EscapeHTML(">")
    THEN <<">">> \o JsonValueFrom(t, i + 6)
    ELSE IF i + 5 <= Len(t) /\ SubSeq(t, i, i + 5) = EscapeHTML("&")
    THEN <<"&">> \o JsonValueFrom(t, i + 6)
    ELSE <<t[i]>> \o JsonValueFrom(t, i + 1)

JsonValue(t) == JsonValueFrom(t, 1)

\* C4: the Result a handler receives was computed from the parameters of
\* its own request (a successful reply holds the method applied to the A
\* and B of its own body, a failure is the failure of its own request),
\* and the response it writes carries the id of its own request.
C4_NoCrossTalk ==
    \A h \in Handlers :
        /\ HasResult(h) =>
              LET req == hreq[h]
                  p == hbody[h].params
                  a == IF p.kind = "object" THEN p.A ELSE 0
                  b == IF p.kind = "object" THEN p.B ELSE 0
              IN  IF ResolvesToMethod(req) /\ ~(req.methodName = NameDiv /\ b = 0)
                  THEN /\ IsNil(hres[h].Error)
                       /\ hres[h].Value = [kind |-> "ptr", C |-> Arith(req.methodName, a, b)]
                  ELSE /\ ~IsNil(hres[h].Error)
                       /\ IsNil(hres[h].Value)
                       /\ hres[h].Error.kind = "plain" <=> ResolvesToMethod(req)
                       /\ hres[h].Error.kind = "server" /\ hres[h].Error.global
                             <=> (req.serviceName \in DOMAIN serviceMap
                                    /\ ~ResolvesToMethod(req))
        /\ Written(h) =>
              /\ JsonValue(resp[h].id)
                    = IF hbody[h].id.kind \in {"absent", "null"}
                      THEN NullText ELSE JsonValue(hbody[h].id.text)
              /\ resp[h].result = hres[h].Value

\* C4 witness: two handlers have written the responses of two different
\* successful requests, served at the same time by two workers.
C4_Witness ==
    \E h1, h2 \in Handlers :
        /\ Written(h1) /\ Written(h2)
        /\ resp[h1].id # resp[h2].id
        /\ ~IsNil(resp[h1].result) /\ ~IsNil(resp[h2].result)
        /\ resp[h1].result.C # resp[h2].result.C
        /\ dequeuedBy[h1] # dequeuedBy[h2]

\* C5: the id member of every response written is the text of the id
\* member of the request, for string, numeric and null ids.
C5_IdEcho ==
    \A h \in Handlers :
        Written(h) /\ hbody[h].id.kind \in {"string", "number", "null"}
            => resp[h].id = hbody[h].id.text

\* C6: every response written by writeResponse contains exactly one of
\* the members result and error.
C6_ExactlyOneOfResultError ==
    \A h \in Handlers :
        Written(h) => Cardinality(resp[h].members \cap {"result", "error"}) = 1

\* A wire code outside the reserved range -32768..-32000
OutsideReserved(code) == code < ReservedLow \/ code > ReservedHigh

\* C7: when the user method returns an error that is not a structured
\* server error, the response carries an error member with the error's
\* text as message and a code outside the reserved range, and no result;
\* a structured server error returned by the method arrives with its
\* code, message and data.
C7_UserErrorOnWire ==
    \A h \in Handlers :
        Written(h) /\ invoked[h] /\ ~IsNil(hres[h].Error) =>
            /\ "result" \notin resp[h].members
            /\ "error" \in resp[h].members
            /\ ~IsNil(resp[h].error)
            /\ IF hres[h].Error.kind = "plain"
               THEN /\ resp[h].error.Message = hres[h].Error.text
                    /\ OutsideReserved(resp[h].error.Code)
               ELSE /\ resp[h].error.Code = hres[h].Error.Code
                    /\ resp[h].error.Message = hres[h].Error.Message
                    /\ resp[h].error.Data = hres[h].Error.Data

\* C8: when the user method returns a non-nil error, the Result that
\* ServeRequest returns has a nil Value and an Error with exactly the text
\* of the user error.
C8_UserErrorResult ==
    \A w \in Workers :
        wpc[w] = "send" /\ invoked[wreq[w]] =>
            LET req == hreq[wreq[w]]
                ret == UserMethod(req.methodName, DecodedArgs(req), ZeroReply)
            IN  ~IsNil(ret.err) =>
                    /\ IsNil(wres[w].Value)
                    /\ ~IsNil(wres[w].Error)
                    /\ ErrorText(wres[w].Error, ErrMethodNotFound) = ret.err.text

\* C8 witness: ServeRequest has returned the Result of Arith.Div with
\* B = 0, whose error text is "divide by zero".
C8_Witness ==
    \E w \in Workers :
        /\ wpc[w] = "send" /\ invoked[wreq[w]]
        /\ hreq[wreq[w]].methodName = NameDiv
        /\ hbody[wreq[w]].params.B = 0
        /\ wres[w].Error.kind = "plain"
        /\ wres[w].Error.text = <<"divide by zero">>

\* C9: for a registered service and a method name that is not in its
\* method map, ServeRequest returns a Result with nil Value and the
\* method-not-found error whose data is the requested method name, and no
\* user method is invoked.
C9_MethodNotFound ==
    \A w \in Workers :
        LET req == hreq[wreq[w]]
        IN  wpc[w] = "send" /\ req.serviceName \in DOMAIN serviceMap
                            /\ ~ResolvesToMethod(req) =>
                /\ IsNil(wres[w].Value)
                /\ wres[w].Error.kind = "server"
                /\ Deref(wres[w].Error, ErrMethodNotFound).Code = ERR_NO_METHOD
                /\ Deref(wres[w].Error, ErrMethodNotFound).Data
                      = StringData(req.methodName)
                /\ ~invoked[wreq[w]]

\* C10: for a service that is not registered the result is a
\* method-not-found error carrying the offending name in its data, and no
\* user method is invoked.
C10_UnknownService ==
    \A w \in Workers :
        LET req == hreq[wreq[w]]
        IN  wpc[w] = "send" /\ req.serviceName \notin DOMAIN serviceMap =>
                /\ wres[w].Error.kind = "server"
                /\ Deref(wres[w].Error, ErrMethodNotFound).Code = ERR_NO_METHOD
                /\ Deref(wres[w].Error, ErrMethodNotFound).Data.kind = "string"
                /\ ~invoked[wreq[w]]

\* The handler serves a POST request whose body is a JSON object.
ServesEnvelope(h) == hpc[h] # "idle" /\ hmethod[h] = "POST" /\ hbody[h].wellFormed

\* readRequest returned an invalid-request error and ServeHTTP returned
\* without submitting the request.
RejectedAsInvalid(h) ==
    /\ ~IsNil(herr[h])
    /\ herr[h].Code = JSON_ERR_INVALID_REQ
    /\ hpc[h] = "done"
    /\ dequeuedBy[h] = {}
    /\ ~invoked[h]

\* C11: every envelope whose "jsonrpc" member is not exactly the string
\* "2.0", an absent member included, is rejected by readRequest with an
\* invalid-request error (-32600) and is never submitted to the worker
\* pool nor dispatched to a user method.
C11_VersionRejected ==
    \A h \in Handlers :
        /\ ServesEnvelope(h)
        /\ ~(hbody[h].jsonrpcKind = "string" /\ hbody[h].jsonrpc = Version20)
        => RejectedAsInvalid(h)

\* C12: readRequest splits the method string at its last ".": the service
\* name is what stands before it and the method name what stands after it,
\* so the method name holds no "." ("A.B.C" gives "A.B" and "C"); a method
\* string without "." is rejected as invalid request with the method
\* string as data.
C12_SplitAtLastDot ==
    \A h \in Handlers :
        ServesEnvelope(h) /\ ~DecodeFails(hbody[h]) /\ hreq[h].Version = Version20 =>
            IF \E i \in 1..Len(hbody[h].method) : hbody[h].method[i] = "."
            THEN /\ IsNil(herr[h])
                 /\ hreq[h].serviceName \o Dot \o hreq[h].methodName = hbody[h].method
                 /\ \A i \in 1..Len(hreq[h].methodName) : hreq[h].methodName[i] # "."
                 /\ hbody[h] = BodyDotted =>
                       /\ hreq[h].serviceName = <<"A", ".", "B">>
                       /\ hreq[h].methodName = <<"C">>
            ELSE /\ RejectedAsInvalid(h)
                 /\ herr[h].Data = StringData(hbody[h].method)

\* C13: when the body cannot be decoded as a JSON envelope, readRequest
\* fails with a parse error, code -32700.
C13_ParseError ==
    \A h \in Handlers :
        hpc[h] # "idle" /\ hmethod[h] = "POST" /\ DecodeFails(hbody[h]) =>
            /\ ~IsNil(herr[h])
            /\ herr[h].Code = JSON_ERR_PARSE

\* C14: when a POST request fails at protocol level (wrong version, method
\* string without "."), the handler replies with HTTP status 200 and a
\* JSON-RPC response body that holds the structured error.
C14_ProtocolErrorInBody ==
    \A h \in Handlers :
        /\ ServesEnvelope(h) /\ ~DecodeFails(hbody[h])
        /\ hpc[h] = "done" /\ ~IsNil(herr[h])
        => /\ resp[h].status = StatusOK
           /\ "error" \in resp[h].members
           /\ resp[h].error.Code = herr[h].Code

\* C15: for every HTTP request whose method is not POST the handler
\* replies 405 and returns: no body is read, nothing is submitted to the
\* worker pool and no user method is invoked.
C15_NotPost ==
    \A h \in Handlers :
        hmethod[h] \notin {"", "POST"} =>
            /\ hpc[h] = "done"
            /\ resp[h] = HttpError(StatusMethodNotAllowed)
            /\ hbody[h] = Garbage /\ hreq[h] = NoRequest /\ IsNil(herr[h])
            /\ dequeuedBy[h] = {} /\ sends[h] = 0 /\ ~invoked[h]
            /\ h \notin executing
            /\ \A w \in Workers : wreq[w] # h

\* C15 witness: a GET request has been answered 405 while the POST request
\* of another connection is with a worker.
C15_Witness ==
    \E h, other \in Handlers :
        /\ hmethod[h] = "GET" /\ hpc[h] = "done"
        /\ resp[h].status = StatusMethodNotAllowed
        /\ hpc[other] = "wait" /\ hmethod[other] = "POST"

\* C16: a request whose "params" member is null or absent is served
\* normally: the user method is invoked with a fresh zero argument and the
\* request gets exactly one Result.
C16_NullParams ==
    \A h \in Handlers :
        /\ ServesEnvelope(h) /\ IsNil(herr[h])
        /\ hbody[h].params.kind \in {"absent", "null"}
        /\ ResolvesToMethod(hreq[h])
        => /\ ~(crashed /\ hpc[h] \in {"submit", "wait"})
           /\ \A w \in Workers :
                 wreq[w] = h /\ wpc[w] = "call" =>
                     wargv[w].A = ZeroArgs.A /\ wargv[w].B = ZeroArgs.B
           /\ HasResult(h) => invoked[h] /\ sends[h] = 1

\* C17: when decoding the raw params into the argument of the method
\* fails, the Result is an invalid-params error (-32602) and the user
\* method is not invoked.
C17_BadParams ==
    \A h \in Handlers :
        /\ ServesEnvelope(h) /\ IsNil(herr[h])
        /\ ~IsNil(hreq[h].Params)
        /\ Unmarshal(hreq[h].Params.json, ZeroArgs).failed
        /\ ResolvesToMethod(hreq[h])
        => /\ ~invoked[h]
           /\ HasResult(h) =>
                 /\ hres[h].Error.kind = "server"
                 /\ Deref(hres[h].Error, ErrMethodNotFound).Code = ERR_BAD_PARAMS

\* C18: an envelope without an "id" member, a notification, is rejected as
\* an invalid request and never dispatched to a user method.
C18_NotificationRejected ==
    \A h \in Handlers :
        /\ ServesEnvelope(h) /\ ~DecodeFails(hbody[h])
        /\ hbody[h].id.kind = "absent"
        => RejectedAsInvalid(h)

\* C19: a registration under a name that is already in the service map
\* fails, and every record of the service map stays in it unchanged
\* whatever Register and RegisterName are called with afterwards.
C19_UniqueNames ==
    [][/\ \A n \in DOMAIN serviceMap :
             n \in DOMAIN serviceMap' /\ serviceMap'[n] = serviceMap[n]
       /\ regLast'.present => ~regLast'.ok]_vars

\* C19 witness: RegisterName was called with a receiver of another type
\* under a name that an earlier registration holds.
C19_Witness ==
    /\ regLast.present /\ ~regLast.ok
    /\ regLast.name # <<>>
    /\ regLast.name \in DOMAIN serviceMap
    /\ serviceMap[regLast.name].rcvr # regLast.rcvr.name
    /\ DOMAIN installValidMethods(regLast.rcvr.methods) # {}

\* C20: Register fails for a receiver whose only method takes its reply by
\* value, has an unexported argument type or has an unexported reply type,
\* and for a value whose methods are declared on the pointer type; no
\* record of such a receiver enters the service map.
C20_RegistrationError ==
    /\ regLast.rcvr \in {RcvrReplyNotPointer, RcvrArgNotPublic, RcvrReplyNotPublic,
                         RcvrNeedsPtrTypeValue}
          => ~regLast.ok
    /\ \A n \in DOMAIN serviceMap :
          serviceMap[n].rcvr \notin {NameReplyNotPointer, NameArgNotPublic,
                                     NameReplyNotPublic}

\* C20 witness: Register(NeedsPtrType(0)) has failed on a server that holds
\* the Arith service, and not because of its name.
C20_Witness ==
    /\ regLast.rcvr = RcvrNeedsPtrTypeValue
    /\ regLast.name = <<>>
    /\ ~regLast.present /\ ~regLast.ok
    /\ NameArith \in DOMAIN serviceMap

\* The methods declared on the type of the given name
DeclaredMethods(typeName) ==
    UNION {rc.methods : rc \in {x \in Receivers : x.name = typeName}}

\* C21: every service record of the service map has a method map that is
\* not empty, and every entry of it is an exported method with receiver,
\* argument and reply as its three ins, an exported or builtin argument
\* type, a pointer to an exported or builtin type as reply type, and error
\* as its one out; a registration that fails leaves the service map as it
\* was.
C21_RegistryWellFormed ==
    [][/\ \A n \in DOMAIN serviceMap' :
             LET svc == serviceMap'[n]
             IN  /\ svc.name = n
                 /\ DOMAIN svc.method # {}
                 /\ \A mn \in DOMAIN svc.method :
                       LET e == svc.method[mn]
                       IN  /\ e.method = mn
                           /\ mn[1] \in UpperCase
                           /\ e.argsType.name[1] \in UpperCase \/ e.argsType.pkgPath = <<>>
                           /\ e.replyType.ptr
                           /\ e.replyType.name[1] \in UpperCase \/ e.replyType.pkgPath = <<>>
                           /\ \E m \in DeclaredMethods(svc.rcvr) :
                                 /\ m.name = mn /\ m.pkgPath = <<>>
                                 /\ m.ins = <<e.argsType, e.replyType>>
                                 /\ m.outs = <<TypeOfError>>
       /\ ~regLast'.ok => serviceMap' = serviceMap]_vars

\* C21 witness: the Mixed type is registered with its one eligible method,
\* and the last registration has failed on an unexported receiver type.
C21_Witness ==
    /\ NameMixed \in DOMAIN serviceMap
    /\ DOMAIN serviceMap[NameMixed].method = {NameGood}
    /\ regLast.rcvr = RcvrUnexported /\ ~regLast.present /\ ~regLast.ok

\* C22: a method declared with a by-value argument (Add) is called with
\* the decoded value, a method declared with a by-reference argument (Mul)
\* with the pointer to it, and in both cases ServeRequest returns a nil
\* Error and as Value the pointer to the reply the method filled in: A+B
\* for Add, A*B for Mul.
C22_ArgumentStyles ==
    \A w \in Workers :
        LET req == hreq[wreq[w]]
            p == hbody[wreq[w]].params
        IN  wpc[w] \in {"call", "send"} /\ invoked[wreq[w]] /\ p.kind = "object"
            /\ req.methodName \in {NameAdd, NameMul} =>
                /\ wpc[w] = "call" =>
                      /\ wargv[w].kind = (IF req.methodName = NameAdd THEN "value" ELSE "ptr")
                      /\ wargv[w].A = p.A /\ wargv[w].B = p.B
                /\ wpc[w] = "send" =>
                      /\ IsNil(wres[w].Error)
                      /\ wres[w].Value.kind = "ptr"
                      /\ wres[w].Value.C = (IF req.methodName = NameAdd
                                            THEN p.A + p.B ELSE p.A * p.B)

\* C22 witness: Mul is running on the pointer to its arguments while the
\* other worker holds the Result of Add.
C22_Witness ==
    \E w1, w2 \in Workers :
        /\ wpc[w1] = "call" /\ hreq[wreq[w1]].methodName = NameMul
        /\ wargv[w1].kind = "ptr" /\ wargv[w1].A = 7 /\ wargv[w1].B = 8
        /\ wpc[w2] = "send" /\ hreq[wreq[w2]].methodName = NameAdd
        /\ wres[w2].Value.C = 15

\* The events of a request in the order the claim gives them
EventOrder ==
    <<"parsed", "submitted", "dequeued", "invoked", "sent", "received", "headers",
      "written">>

\* The same for a request that reaches no user method
EventOrderNoMethod == SelectSeq(EventOrder, LAMBDA e : e # "invoked")

\* C29: the events of each request occur in the order parsed, submitted,
\* dequeued by a worker, user method invoked (when there is one to invoke),
\* Result sent, Result received, headers set, response written, none
\* skipped; a response is never written before the worker has sent the
\* Result.
C29_EventOrder ==
    \A h \in Handlers :
        /\ \/ \E n \in 0..Len(EventOrder) : events[h] = SubSeq(EventOrder, 1, n)
           \/ \E n \in 0..Len(EventOrderNoMethod) :
                  events[h] = SubSeq(EventOrderNoMethod, 1, n)
        /\ Written(h) => sends[h] = 1 /\ sentBy[h] # {}

\* C29 witness: a response has been written for a request that went
\* through a user method while another request is between dequeue and
\* send.
C29_Witness ==
    \E h, other \in Handlers :
        /\ events[h] = EventOrder
        /\ Len(events[other]) = 3

\* The workers that can still serve requests: none once the process has
\* died, otherwise those not blocked on the channel of a request whose
\* handler has gone.
LiveWorkers ==
    IF crashed THEN {}
    ELSE {w \in Workers : ~(wpc[w] = "send" /\ hpc[wreq[w]] # "wait")}

\* C30: a handler that has submitted its request receives from the
\* completion channel before it returns, so every request a worker holds
\* has its handler waiting for it, no worker is blocked on an abandoned
\* channel and the number of live workers stays W.
C30_NoWorkerLost ==
    /\ \A w \in Workers : wpc[w] # "idle" => hpc[wreq[w]] = "wait"
    /\ \A h \in Handlers : hpc[h] = "done" /\ dequeuedBy[h] # {} => sends[h] = 1
    /\ Cardinality(LiveWorkers) = NumWorkers

\* The handles the sender has received from the queue
Dequeued == {dequeueLog[i] : i \in 1..Len(dequeueLog)}

\* The place of a handle in a log, 0 when it is not in it
Position(log, k) ==
    IF \E i \in 1..Len(log) : log[i] = k
    THEN CHOOSE i \in 1..Len(log) : log[i] = k
    ELSE 0

\* The sender is through with a handle: it holds another one or none, or
\* the sender goroutine has ended.
SenderDoneWith(k) == k \in Dequeued /\ (scur # k \/ clientCrashed)

\* C23: the sender sends every handle it has accepted on the handle's Done
\* channel exactly once, whichever way the call went (encoding failure,
\* request construction failure, HTTP failure, response decoding failure,
\* success), and never a second time.
C23_PublishedOnce ==
    \A k \in 1..Len(calls) :
        /\ calls[k].publishes <= 1
        /\ calls[k].state = "received" <=> calls[k].publishes = 1
        /\ SenderDoneWith(k) => calls[k].publishes = 1

\* C24: every handle has a Done channel of capacity at least one, so the
\* sender at call.Done <- call is never held up by a caller that is not
\* receiving.
C24_DoneBuffered ==
    /\ \A k \in 1..Len(calls) : calls[k].doneCap >= 1
    /\ spc = "publish" => Offered(calls[scur].caller) = {}

\* C25: the ids of the request envelopes are 1, 2, 3, ... in the order the
\* sender dequeues the handles, whoever issued the calls and whether or not
\* earlier calls failed.
C25_IdsInOrder ==
    /\ seq = Len(dequeueLog)
    /\ \A i \in 1..Len(dequeueLog) : calls[dequeueLog[i]].id = i
    /\ \A k \in 1..Len(calls) : k \notin Dequeued => calls[k].id = 0

\* C25 witness: three handles were dequeued in another order than they
\* were allocated, by two goroutines, and the first call dequeued failed.
C25_Witness ==
    /\ Len(dequeueLog) = 3
    /\ dequeueLog # <<1, 2, 3>>
    /\ calls[dequeueLog[1]].caller # calls[dequeueLog[2]].caller
    /\ ~IsNil(calls[dequeueLog[1]].Error)
    /\ calls[dequeueLog[3]].id = 3

\* C26: the requests are handed to the HTTP transport in the order their
\* handles were dequeued, and the handles of one goroutine are dequeued,
\* and handed over, in the order of its Calls.
C26_Fifo ==
    /\ \A i, j \in 1..Len(transportLog) :
          i < j => /\ Position(dequeueLog, transportLog[i]) > 0
                   /\ Position(dequeueLog, transportLog[i])
                         < Position(dequeueLog, transportLog[j])
    /\ \A k1, k2 \in 1..Len(calls) :
          k1 < k2 /\ calls[k1].caller = calls[k2].caller =>
              /\ k2 \in Dequeued =>
                    /\ k1 \in Dequeued
                    /\ Position(dequeueLog, k1) < Position(dequeueLog, k2)
              /\ Position(transportLog, k1) > 0 /\ Position(transportLog, k2) > 0 =>
                    Position(transportLog, k1) < Position(transportLog, k2)

\* C26 witness: one goroutine has had two requests handed to the
\* transport, with a call of another goroutine dequeued between them.
C26_Witness ==
    \E k1, k2, k3 \in 1..Len(calls) :
        /\ calls[k1].caller = calls[k2].caller
        /\ calls[k3].caller # calls[k1].caller
        /\ Position(transportLog, k1) > 0
        /\ Position(transportLog, k1) < Position(transportLog, k2)
        /\ Position(dequeueLog, k1) < Position(dequeueLog, k3)
        /\ Position(dequeueLog, k3) < Position(dequeueLog, k2)

\* C27: when the response of the server has an error member, the Error of
\* the handle is a structured error with the code and the message of the
\* server; otherwise the result is decoded into the reply destination and
\* the Error is nil.
C27_ErrorDecoded ==
    \A k \in 1..Len(calls) :
        calls[k].state = "received" /\ calls[k].resp.status = StatusOK =>
            IF "error" \in calls[k].resp.members
            THEN /\ calls[k].Error.kind \in {"server", "json"}
                 /\ calls[k].Error.Code = calls[k].resp.error.Code
                 /\ calls[k].Error.Message = calls[k].resp.error.Message
            ELSE /\ IsNil(calls[k].Error)
                 /\ calls[k].replyC = calls[k].resp.result.C

\* C28: once Close has been called, every handle the sender has accepted
\* is in the end received from its Done channel.
C28_ResolvedAfterClose ==
    \A k \in 1..MaxCalls :
        (closed /\ k <= Len(calls) /\ calls[k].state = "accepted")
            ~> (k <= Len(calls) /\ calls[k].state = "received")

\* Requests sent on RequestQueue whose Result has not been received yet
Submitted == {h \in Handlers : hpc[h] = "wait"}

\* Workers that are not at the top of their loop: serving a request or
\* waiting for its Result to be taken
BusyWorkers == {w \in Workers : wpc[w] # "idle"}

\* C31: RequestQueue holds no request.  Every request that was submitted
\* and whose Result has not been received is in the hands of one busy
\* worker of its own, so there are never more than W of them, and when all
\* W workers are busy no handler can complete its send on RequestQueue.
C31_QueueHoldsNothing ==
    /\ \A h \in Submitted : \E w \in BusyWorkers : wreq[w] = h
    /\ \A w1, w2 \in BusyWorkers : w1 # w2 => wreq[w1] # wreq[w2]
    /\ Cardinality(Submitted) <= NumWorkers
    /\ BusyWorkers = Workers =>
          \A h \in Handlers : ~ENABLED (\E w \in Workers : WorkerReceive(w, h))

\* C31 witness: all W workers are busy, one of them waiting for its Result
\* to be taken, and, when there are more handlers than workers, a further
\* handler is blocked on RequestQueue.
C31_Witness ==
    /\ BusyWorkers = Workers
    /\ Cardinality(Submitted) = NumWorkers
    /\ \E w \in Workers : wpc[w] = "send"
    /\ NumHandlers > NumWorkers => \E h \in Handlers : hpc[h] = "submit"

\* The registrations that have returned nil or are past their publish
\* never change the record they published: what a lookup may see under a
\* name is nil or the record RegisterName builds for some call under it.
WholeRecords(name) ==
    {RegisterName(EmptyServiceMap, a.name, a.rcvr).map[name] :
        a \in {x \in LockRegistrations :
                  /\ ServiceName(x) = name
                  /\ RegisterName(EmptyServiceMap, x.name, x.rcvr).ok}}

\* C32: registration and lookup exclude each other and lookups may
\* overlap: no reader holds the mutex while a writer does, and there is at
\* most one writer; the service a lookup has read is nil or a whole record
\* under the name it asked for, with a method map that is not empty, never
\* the record a registration is still building; the service map changes
\* only by the writer adding its finished record, as RegisterName on the
\* map before gives it; a record in the map is never changed or removed.
C32_RegistrationExcludesLookup ==
    [][/\ (mu.writers = {} \/ mu.readers = {})'
       /\ Cardinality(mu'.writers) <= 1
       /\ \A l \in Lookups :
             lookService'[l].kind = "ptr" =>
                 /\ lookService'[l].s \in WholeRecords(lookName'[l])
                 /\ lookService'[l].s.name = lookName'[l]
                 /\ DOMAIN lookService'[l].s.method # {}
       /\ \A n \in DOMAIN serviceMap :
             n \in DOMAIN serviceMap' /\ serviceMap'[n] = serviceMap[n]
       /\ serviceMap' # serviceMap =>
             \E g \in mu.writers :
                 /\ RegisterName(serviceMap, regArgs[g].name, regArgs[g].rcvr).ok
                 /\ serviceMap' =
                       RegisterName(serviceMap, regArgs[g].name, regArgs[g].rcvr).map]_vars

\* C32 witness: two lookups asked for the same name; one read nil before
\* the registration took the mutex and is still serving its request, the
\* other holds the mutex and has read the record published since.
C32_Witness ==
    \E l1, l2 \in Lookups :
        /\ lookName[l1] = lookName[l2]
        /\ lookPc[l1] = "serve" /\ lookService[l1].kind = "nil"
        /\ lookPc[l2] = "read" /\ lookService[l2].kind = "ptr"
        /\ mu.readers = {l2}

\* C33: requests served at the same time share nothing but RequestQueue
\* and their own result channels: the method-not-found error a handler
\* has received from its result channel has the method name of the
\* handler's own request as data, whatever the other workers serve.
C33_OwnMethodName ==
    \A h \in Handlers :
        LET err == hres[h].Error
        IN  (hpc[h] = "got" /\ ~IsNil(err) /\ err.kind = "server"
                /\ Deref(err, ErrMethodNotFound).Code = ERR_NO_METHOD)
                => Deref(err, ErrMethodNotFound).Data = StringData(hreq[h].methodName)

\* C34: every response writeResponse has written has a "jsonrpc" member,
\* and it is "2.0", whatever the members of the request were.
C34_Version20 ==
    \A h \in Handlers :
        hpc[h] = "done" /\ resp[h].status = StatusOK =>
            /\ "jsonrpc" \in resp[h].members
            /\ resp[h].jsonrpc = Version20

\* C34 witness: a response has been written for one request while a
\* request of version "1.0" on another connection has been answered
\* without one.
C34_Witness ==
    \E h1, h2 \in Handlers :
        /\ hpc[h1] = "done" /\ resp[h1].status = StatusOK
        /\ resp[h1].jsonrpc = Version20
        /\ hpc[h2] = "done" /\ hbody[h2] = BodyVersion10
        /\ resp[h2].status = StatusBadRequest

\* C35: the wire form of a structured server error has the code of the
\* error, one of the six reserved codes or any other, and its message and
\* data as they are.
C35_CodeUnchanged ==
    trJson # NotTranslated /\ trErr.kind = "server" =>
        /\ trJson.kind = "json"
        /\ trJson.Code = Deref(trErr, ErrMethodNotFound).Code
        /\ trJson.Message = Deref(trErr, ErrMethodNotFound).Message
        /\ trJson.Data = Deref(trErr, ErrMethodNotFound).Data

\* C35 witness: an error of a user service with a code of 1000 or more, a
\* message and data has been translated.
C35_Witness ==
    /\ trErr.kind = "server"
    /\ trErr.Code >= 1000
    /\ trErr.Message = <<"divide by zero">>
    /\ ~IsNil(trErr.Data)
    /\ trJson.kind = "json"
    /\ trJson.Code = trErr.Code

\* C36: RegisterName with a name that is not empty returns nil exactly
\* when the name is not yet in the service map and Register on a new
\* server accepts the receiver, whatever the first letter of the name; it
\* then adds one record, under that name and no other, with the eligible
\* methods of the receiver; when it fails the service map stays as it was.
C36_ExplicitName ==
    [][regLast'.name # <<>> =>
          /\ regLast'.ok <=>
                /\ ~regLast'.present
                /\ RegisterName(EmptyServiceMap, <<>>, regLast'.rcvr).ok
          /\ regLast'.ok =>
                /\ DOMAIN serviceMap' = DOMAIN serviceMap \cup {regLast'.name}
                /\ regLast'.name \notin DOMAIN serviceMap
                /\ \A n \in DOMAIN serviceMap : serviceMap'[n] = serviceMap[n]
                /\ serviceMap'[regLast'.name] =
                      [name |-> regLast'.name, rcvr |-> regLast'.rcvr.name,
                       method |-> installValidMethods(regLast'.rcvr.methods)]
          /\ ~regLast'.ok => serviceMap' = serviceMap]_vars

\* C36 witness: Arith is registered under the lower-case name "calc" and
\* not under its type name, and the last call, RegisterName("Arith", rcvr)
\* with a receiver of the unexported type arith, has failed although the
\* name was free.
C36_Witness ==
    /\ DOMAIN serviceMap = {NameCalc}
    /\ serviceMap[NameCalc].rcvr = NameArith
    /\ regLast.name = NameArith /\ regLast.rcvr = RcvrUnexported
    /\ ~regLast.present /\ ~regLast.ok

\* The state of the k-th handle, "none" before it is allocated
StateOf(k) == IF k <= Len(calls) THEN calls[k].state ELSE "none"

\* The goroutine that allocated the k-th handle, 0 before it is allocated
CallerOf(k) == IF k <= Len(calls) THEN calls[k].caller ELSE 0

\* C37: when a goroutine is in its second Call while the handle of its
\* first Call has been accepted and not yet received, both Calls return
\* and both handles are received in the end (unless the client process
\* has died): the send on the queue and the send on Done do not wait for
\* each other.
C37_BackToBackCalls ==
    \A k1, k2 \in 1..MaxCalls :
        (/\ k1 < k2
         /\ CallerOf(k1) = CallerOf(k2)
         /\ StateOf(k1) = "accepted"
         /\ StateOf(k2) = "offered"
         /\ ~clientCrashed)
            ~> (\/ clientCrashed
                \/ StateOf(k1) = "received" /\ StateOf(k2) = "received")

\* The handles that were dequeued and have not been received from Done
InProgress == {k \in 1..Len(calls) : calls[k].state = "accepted"}

\* C38: at most one call of the client is in progress, the one the sender
\* holds; every handle dequeued before the last one has been received
\* from its Done channel, exactly once, so the handles are published in
\* the order they were dequeued.
C38_OneCallInProgress ==
    /\ Cardinality(InProgress) <= 1
    /\ InProgress \subseteq {scur}
    /\ \A i \in 1..Len(dequeueLog) :
          i < Len(dequeueLog) =>
              /\ calls[dequeueLog[i]].state = "received"
              /\ calls[dequeueLog[i]].publishes = 1
    /\ \A i, j \in 1..Len(dequeueLog) : i # j => dequeueLog[i] # dequeueLog[j]

\* C38 witness: the first handle dequeued has been received, the second
\* is in its HTTP round trip, and a third is offered on the queue and has
\* to wait.
C38_Witness ==
    /\ Len(dequeueLog) = 2
    /\ calls[dequeueLog[1]].state = "received"
    /\ spc = "do" /\ scur = dequeueLog[2]
    /\ \E k \in 1..Len(calls) : calls[k].state = "offered"

====
